---- MODULE Spec2Model ----
(***************************************************************************)
(* Promotion-eligibility engine of pace-backend: date normalisation        *)
(* (date_parsing.py), the accounting-date gate (accounting_date_check.py)  *)
(* and the board-filter rule chain (board_filter.py) over the regulatory   *)
(* tables of constants.py.                                                 *)
(*                                                                         *)
(* A datetime is a record year/month/day/hour/minute/second/microsecond.   *)
(* Python's None is the record None below.  Text is a TLA+ string; a text  *)
(* whose characters the code inspects is a sequence of one-character       *)
(* strings.                                                                *)
(***************************************************************************)
EXTENDS Integers, Sequences, FiniteSets, TLC

VARIABLES
    pc,       \* position of the call under analysis: "call" or "done"
    args,     \* arguments of the board_filter call
    ret,      \* value returned by board_filter
    gateArgs, \* arguments of the accounting_date_check call
    gateRet,  \* value returned by accounting_date_check
    roster,   \* arguments of the roster_processor call
    rp,       \* local variables and position of roster_processor
    session,  \* what update_session has stored for the session
    parse,    \* a date value, parse_date of it and parse_date of the result
    http      \* the last request of the roster endpoints and its outcome

vars == <<pc, args, ret, gateArgs, gateRet, roster, rp, session, parse, http>>

(***************************************************************************)
(* Calendar arithmetic (datetime, dateutil.relativedelta).                 *)
(***************************************************************************)

IsLeap(y) == (y % 4 = 0 /\ y % 100 # 0) \/ y % 400 = 0

DaysInMonth(y, m) ==
    IF m = 2 THEN (IF IsLeap(y) THEN 29 ELSE 28)
    ELSE IF m \in {4, 6, 9, 11} THEN 30 ELSE 31

\* datetime(y, m, d, ...) as a record; strptime and pandas give midnight.
DateTime(y, m, d) ==
    [year |-> y, month |-> m, day |-> d,
     hour |-> 0, minute |-> 0, second |-> 0, microsecond |-> 0]

\* Python's None where a datetime is expected.
None == [year |-> 0, month |-> 0, day |-> 0,
         hour |-> 0, minute |-> 0, second |-> 0, microsecond |-> 0]

\* pandas' NaT where a datetime is expected: what a datetime64 column holds
\* for an absent date.  It is not None, and every ordering comparison with
\* it is false.
NaT == [year |-> 0, month |-> 0, day |-> 0,
        hour |-> 0, minute |-> 0, second |-> 0, microsecond |-> -1]

\* Where a datetime is expected: pd.to_datetime raised OutOfBoundsDatetime.
OutOfBoundsDatetime ==
    [year |-> 0, month |-> 0, day |-> 0,
     hour |-> 0, minute |-> 0, second |-> 0, microsecond |-> -2]

\* Proleptic Gregorian day number (days since 1970-01-01).
DaysFromCivil(y, m, d) ==
    LET yy  == IF m <= 2 THEN y - 1 ELSE y
        era == yy \div 400
        yoe == yy - era * 400
        mp  == IF m > 2 THEN m - 3 ELSE m + 9
        doy == (153 * mp + 2) \div 5 + d - 1
        doe == yoe * 365 + yoe \div 4 - yoe \div 100 + doy
    IN  era * 146097 + doe - 719468

\* Inverse of DaysFromCivil; the time of day is supplied by the caller.
CivilFromDays(z) ==
    LET zz  == z + 719468
        era == zz \div 146097
        doe == zz - era * 146097
        yoe == (doe - doe \div 1460 + doe \div 36524 - doe \div 146096) \div 365
        doy == doe - (365 * yoe + yoe \div 4 - yoe \div 100)
        mp  == (5 * doy + 2) \div 153
        d   == doy - (153 * mp + 2) \div 5 + 1
        m   == IF mp < 10 THEN mp + 3 ELSE mp - 9
        y   == yoe + era * 400 + (IF m <= 2 THEN 1 ELSE 0)
    IN  DateTime(y, m, d)

\* dt + relativedelta(years=.., months=n): the month is moved by n and the
\* day is clamped once to the length of the resulting month.
AddMonths(dt, n) ==
    LET t  == dt.year * 12 + (dt.month - 1) + n
        y  == t \div 12
        m  == (t % 12) + 1
        dm == DaysInMonth(y, m)
    IN  [dt EXCEPT !.year = y, !.month = m,
                   !.day = IF dt.day > dm THEN dm ELSE dt.day]

\* dt + relativedelta(days=n): the time of day is kept.
AddDays(dt, n) ==
    LET c == CivilFromDays(DaysFromCivil(dt.year, dt.month, dt.day) + n)
    IN  [dt EXCEPT !.year = c.year, !.month = c.month, !.day = c.day]

\* Ordering of naive datetimes (datetime.__lt__): lexicographic.
DayKey(dt)  == (dt.year * 12 + dt.month) * 31 + dt.day
TimeKey(dt) == (dt.hour * 60 + dt.minute) * 60 + dt.second

Before(a, b) ==
    \/ DayKey(a) < DayKey(b)
    \/ /\ DayKey(a) = DayKey(b)
       /\ \/ TimeKey(a) < TimeKey(b)
          \/ TimeKey(a) = TimeKey(b) /\ a.microsecond < b.microsecond

After(a, b)      == Before(b, a)
OnOrBefore(a, b) == ~ Before(b, a)

\* The datetimes pd.to_datetime can hold in nanoseconds since 1970 in 64
\* bits: pd.Timestamp.min is 1677-09-21 00:12:43.145224193 and
\* pd.Timestamp.max is 2262-04-11 23:47:16.854775807.
Timestamp_min ==
    [year |-> 1677, month |-> 9, day |-> 21,
     hour |-> 0, minute |-> 12, second |-> 43, microsecond |-> 145224]

Timestamp_max ==
    [year |-> 2262, month |-> 4, day |-> 11,
     hour |-> 23, minute |-> 47, second |-> 16, microsecond |-> 854775]

InBounds(dt) == After(dt, Timestamp_min) /\ ~ After(dt, Timestamp_max)

(***************************************************************************)
(* Regulatory tables (constants.py).  A 'DD-MON' entry is kept as its day  *)
(* and its month text, which strptime's %b resolves.                       *)
(***************************************************************************)

DayMon(d, mon) == [day |-> d, mon |-> mon]

SCODS ==
    [g \in {"AB", "AMN", "A1C", "SRA", "SSG", "TSG", "MSG", "SMS"} |->
        CASE g \in {"AB", "AMN", "A1C", "SRA"} -> DayMon(31, "MAR")
          [] g = "SSG" -> DayMon(31, "JAN")
          [] g = "TSG" -> DayMon(30, "NOV")
          [] g = "MSG" -> DayMon(30, "SEP")
          [] g = "SMS" -> DayMon(31, "JUL")]

TIG ==
    [g \in DOMAIN SCODS |->
        CASE g \in {"AB", "AMN", "A1C", "SRA"} -> DayMon(1, "FEB")
          [] g = "SSG" -> DayMon(1, "AUG")
          [] g \in {"TSG", "MSG"} -> DayMon(1, "JUL")
          [] g = "SMS" -> DayMon(1, "MAR")]

TIG_MONTHS_REQUIRED ==
    [g \in DOMAIN SCODS |->
        CASE g \in {"AB", "AMN", "SRA"} -> 6
          [] g = "A1C" -> 10
          [] g = "SSG" -> 23
          [] g = "TSG" -> 24
          [] g = "MSG" -> 20
          [] g = "SMS" -> 21]

\* Required time in service in hundredths of a year (0.25 years is 25),
\* with the text Python prints for the value.
TAFMSD ==
    [g \in DOMAIN SCODS |->
        CASE g = "AB"  -> [hundredths |-> 25,   text |-> "0.25"]
          [] g = "AMN" -> [hundredths |-> 50,   text |-> "0.5"]
          [] g = "A1C" -> [hundredths |-> 125,  text |-> "1.25"]
          [] g = "SRA" -> [hundredths |-> 300,  text |-> "3"]
          [] g = "SSG" -> [hundredths |-> 500,  text |-> "5"]
          [] g = "TSG" -> [hundredths |-> 800,  text |-> "8"]
          [] g = "MSG" -> [hundredths |-> 1100, text |-> "11"]
          [] g = "SMS" -> [hundredths |-> 1400, text |-> "14"]]

MDOS ==
    [g \in DOMAIN SCODS |->
        CASE g \in {"AB", "AMN", "A1C", "SRA"} -> DayMon(1, "SEP")
          [] g \in {"SSG", "TSG"} -> DayMon(1, "AUG")
          [] g = "MSG" -> DayMon(1, "APR")
          [] g = "SMS" -> DayMon(1, "JAN")]

MAIN_HIGHER_TENURE ==
    [g \in DOMAIN SCODS |->
        CASE g \in {"AB", "AMN"} -> 6
          [] g = "A1C" -> 8
          [] g = "SRA" -> 10
          [] g = "SSG" -> 20
          [] g = "TSG" -> 22
          [] g = "MSG" -> 24
          [] g = "SMS" -> 26]

EXCEPTION_HIGHER_TENURE ==
    [g \in DOMAIN SCODS |->
        CASE g \in {"AB", "AMN"} -> 8
          [] g = "A1C" -> 10
          [] g = "SRA" -> 12
          [] g = "SSG" -> 22
          [] g = "TSG" -> 24
          [] g = "MSG" -> 26
          [] g = "SMS" -> 28]

PAFSC_MAP ==
    [g \in DOMAIN SCODS |->
        CASE g \in {"AB", "AMN", "A1C"} -> "3"
          [] g = "SRA" -> "5"
          [] g \in {"SSG", "TSG", "MSG"} -> "7"
          [] g = "SMS" -> "9"]

RE_CODES ==
    [c \in {"2A", "2B", "2C", "2F", "2G", "2H", "2J", "2K", "2M", "2P", "2W",
            "2X", "4H", "4I", "4L", "4M", "4N"} |->
        CASE c = "2A" -> "AFPC Denied Reenlistment"
          [] c = "2B" -> "Discharged, General."
          [] c = "2C" -> "Involuntary separation."
          [] c = "2F" -> "Undergoing Rehab"
          [] c = "2G" -> "Substance Abuse, Drugs"
          [] c = "2H" -> "Substance Abuse, Alcohol"
          [] c = "2J" -> "Under investigation"
          [] c = "2K" -> "Involuntary Separation."
          [] c = "2M" -> "Sentenced under UCMJ"
          [] c = "2P" -> "AWOL; deserter."
          [] c = "2W" -> "Retired and recalled to AD"
          [] c = "2X" -> "Not selected for Reenlistment."
          [] c = "4H" -> "Article 15."
          [] c = "4I" -> "Control Roster."
          [] c = "4L" -> "Separated, Commissioning program."
          [] c = "4M" -> "Breach of enlistment."
          [] c = "4N" -> "Convicted, Civil Court."]

hyt_start_date == DateTime(2023, 12, 8)
hyt_end_date   == DateTime(2026, 9, 30)

ACCOUNTING_DATE_OFFSET_DAYS == 119

(***************************************************************************)
(* Date text.  strptime's %b and pandas' parser read a month abbreviation  *)
(* without regard to case.                                                 *)
(***************************************************************************)

MonthNames ==
    [b \in {"Jan", "Feb", "Mar", "Apr", "May", "Jun", "Jul", "Aug", "Sep",
            "Oct", "Nov", "Dec", "JAN", "FEB", "MAR", "APR", "MAY", "JUN",
            "JUL", "AUG", "SEP", "OCT", "NOV", "DEC"} |->
        CASE b \in {"Jan", "JAN"} -> 1  [] b \in {"Feb", "FEB"} -> 2
          [] b \in {"Mar", "MAR"} -> 3  [] b \in {"Apr", "APR"} -> 4
          [] b \in {"May", "MAY"} -> 5  [] b \in {"Jun", "JUN"} -> 6
          [] b \in {"Jul", "JUL"} -> 7  [] b \in {"Aug", "AUG"} -> 8
          [] b \in {"Sep", "SEP"} -> 9  [] b \in {"Oct", "OCT"} -> 10
          [] b \in {"Nov", "NOV"} -> 11 [] b \in {"Dec", "DEC"} -> 12]

\* datetime.strptime(f"{DD-MON}-{year}", "%d-%b-%Y") for a table entry.
strptime(dm, year) == DateTime(year, MonthNames[dm.mon], dm.day)

(***************************************************************************)
(* Values of a date cell before normalisation.  kind is the Python type:   *)
(* None, NaN (float nan or NaT), str, datetime, Timestamp or number (int   *)
(* or float).                                                              *)
(* A str holds the text 'DD-Mon-YYYY' as its three parts; a str that is    *)
(* not a date has a month part that is no month name, '' has none.         *)
(***************************************************************************)

NoText == [d |-> 0, b |-> "", Y |-> 0]

Missing      == [kind |-> "None",     text |-> NoText, dt |-> None, num |-> 0]
NaN          == [kind |-> "NaN",      text |-> NoText, dt |-> None, num |-> 0]
Text(d, b, Y) ==
    [kind |-> "str", text |-> [d |-> d, b |-> b, Y |-> Y], dt |-> None, num |-> 0]
Structured(dt) == [kind |-> "datetime", text |-> NoText, dt |-> dt, num |-> 0]
Number(n)    == [kind |-> "number",   text |-> NoText, dt |-> None, num |-> n]

\* A pd.Timestamp: a datetime and the nanoseconds below its microsecond.
Stamp(dt, ns) == [kind |-> "Timestamp", text |-> NoText, dt |-> dt, num |-> ns]

\* pd.to_datetime(..) of a text or a serial number, inside try: a date
\* beyond the nanosecond range raises and the except clause passes.
InRange(dt) == IF InBounds(dt) THEN dt ELSE None

\* parse_date (date_parsing.py): None for an absent or unreadable value.
\* Line 13 is outside every try: pd.to_datetime raises for a datetime beyond
\* the nanosecond range, and to_pydatetime drops a Timestamp's nanoseconds.
parse_date(value) ==
    CASE value.kind \in {"None", "NaN"} -> None
      [] value.kind = "str" ->
            IF /\ value.text.b \in DOMAIN MonthNames
               /\ value.text.d >= 1
               /\ value.text.d <= DaysInMonth(value.text.Y, MonthNames[value.text.b])
            THEN InRange(DateTime(value.text.Y, MonthNames[value.text.b],
                                  value.text.d))
            ELSE None
      [] value.kind = "datetime" ->
            IF InBounds(value.dt) THEN value.dt ELSE OutOfBoundsDatetime
      [] value.kind = "Timestamp" -> value.dt
      [] value.kind = "number" ->
            IF 1 <= value.num /\ value.num <= 2958465
            THEN InRange(CivilFromDays(value.num + DaysFromCivil(1899, 12, 30)))
            ELSE None

\* A parsed date handed to parse_date again (board_filter's sub-checks).
AsValue(dt) == IF dt = None THEN Missing ELSE Structured(dt)

(***************************************************************************)
(* Characters.  Python orders one-character strings by code point: '-',    *)
(* then the digits, then the upper-case letters.                           *)
(***************************************************************************)

Digits == <<"0", "1", "2", "3", "4", "5", "6", "7", "8", "9">>

UpperCase ==
    <<"A", "B", "C", "D", "E", "F", "G", "H", "I", "J", "K", "L", "M",
      "N", "O", "P", "Q", "R", "S", "T", "U", "V", "W", "X", "Y", "Z">>

IsDigit(c) == \E i \in DOMAIN Digits : Digits[i] = c
isalpha(c) == \E i \in DOMAIN UpperCase : UpperCase[i] = c

\* ord(c) for the characters above.
ord(c) ==
    IF c = "-" THEN 45
    ELSE IF IsDigit(c) THEN 47 + (CHOOSE i \in DOMAIN Digits : Digits[i] = c)
    ELSE 64 + (CHOOSE i \in DOMAIN UpperCase : UpperCase[i] = c)

(***************************************************************************)
(* Values of a text cell (specialty code, RE code): None, NaN, a str given *)
(* by its characters and as a whole, or a number.                          *)
(***************************************************************************)

NoneCell       == [kind |-> "None",   chars |-> <<>>, s |-> ""]
NaNCell        == [kind |-> "NaN",    chars |-> <<>>, s |-> ""]
NumberCell     == [kind |-> "number", chars |-> <<>>, s |-> ""]
Str(chars, s)  == [kind |-> "str",    chars |-> chars, s |-> s]

\* pd.isna(x) replaced by None, as pafsc_check and board_filter do.
isna(cell) == cell.kind \in {"None", "NaN"}

\* AnyMeets comparing with > where the code compares with >=.
RECURSIVE AnyMeets_Strict(_, _)
AnyMeets_Strict(afscs, required_level) ==
    IF afscs = <<>> THEN FALSE
    ELSE LET afsc == Head(afscs)
             skill_level_index ==
                 IF isalpha(afsc.chars[1]) \/ afsc.chars[1] = "-" THEN 5 ELSE 4
         IN  IF /\ ~ isna(afsc)
                /\ afsc.kind = "str"
                /\ Len(afsc.chars) >= 5
                /\ ord(afsc.chars[skill_level_index]) > ord(required_level)
             THEN TRUE
             ELSE AnyMeets_Strict(Tail(afscs), required_level)

\* pafsc_check (board_filter.py): "True" when some code meets the level the
\* grade requires, "False" when none does, "None" for a primary code that
\* starts with 8 or 9.
RECURSIVE AnyMeets(_, _)
AnyMeets(afscs, required_level) ==
    IF afscs = <<>> THEN FALSE
    ELSE LET afsc == Head(afscs)
             skill_level_index ==
                 IF isalpha(afsc.chars[1]) \/ afsc.chars[1] = "-" THEN 5 ELSE 4
         IN  IF /\ ~ isna(afsc)
                /\ afsc.kind = "str"
                /\ Len(afsc.chars) >= 5
                /\ ord(afsc.chars[skill_level_index]) >= ord(required_level)
             THEN TRUE
             ELSE AnyMeets(Tail(afscs), required_level)

\* pafsc_check without the special-duty return.
pafsc_check_NoBypass(grade, pafsc, two_afsc, three_afsc, four_afsc) ==
    IF grade \notin DOMAIN PAFSC_MAP
    THEN "False"
    ELSE IF AnyMeets(<<pafsc, two_afsc, three_afsc, four_afsc>>, PAFSC_MAP[grade])
    THEN "True"
    ELSE "False"

pafsc_check(grade, pafsc, two_afsc, three_afsc, four_afsc) ==
    IF /\ ~ isna(pafsc)
       /\ pafsc.kind = "str"
       /\ Len(pafsc.chars) > 0
       /\ pafsc.chars[1] \in {"8", "9"}
    THEN "None"
    ELSE IF grade \notin DOMAIN PAFSC_MAP
    THEN "False"
    ELSE IF AnyMeets(<<pafsc, two_afsc, three_afsc, four_afsc>>, PAFSC_MAP[grade])
    THEN "True"
    ELSE "False"

\* btz_elgibility_check (board_filter.py).
btz_elgibility_check(date_of_rank, year) ==
    LET dor              == parse_date(AsValue(date_of_rank))
        cutoff_date      == strptime(DayMon(1, "Feb"), year)
        btz_date_of_rank == AddMonths(dor, 22)
        scod_date        == strptime(SCODS["SRA"], year)
    IN  IF dor = None THEN FALSE
        ELSE IF OnOrBefore(btz_date_of_rank, cutoff_date) THEN TRUE
        ELSE IF Before(cutoff_date, btz_date_of_rank)
                /\ OnOrBefore(btz_date_of_rank, scod_date) THEN TRUE
        ELSE FALSE

\* check_a1c_eligbility with a standard rule of 8 months instead of 28.
check_a1c_eligbility_Early(date_of_rank, year) ==
    LET dor         == parse_date(AsValue(date_of_rank))
        cutoff_date == strptime(DayMon(1, "Feb"), year)
        scod_date   == strptime(SCODS["SRA"], year)
        standard_a1c_date_of_rank == AddMonths(dor, 8)
    IN  IF dor = None THEN "False"
        ELSE IF OnOrBefore(standard_a1c_date_of_rank, cutoff_date) THEN "True"
        ELSE IF Before(cutoff_date, standard_a1c_date_of_rank)
                /\ OnOrBefore(standard_a1c_date_of_rank, scod_date) THEN "False"
        ELSE "None"

\* check_a1c_eligbility (board_filter.py): "True", "False" or "None".
check_a1c_eligbility(date_of_rank, year) ==
    LET dor         == parse_date(AsValue(date_of_rank))
        cutoff_date == strptime(DayMon(1, "Feb"), year)
        scod_date   == strptime(SCODS["SRA"], year)
        standard_a1c_date_of_rank == AddMonths(dor, 28)
    IN  IF dor = None THEN "False"
        ELSE IF OnOrBefore(standard_a1c_date_of_rank, cutoff_date) THEN "True"
        ELSE IF Before(cutoff_date, standard_a1c_date_of_rank)
                /\ OnOrBefore(standard_a1c_date_of_rank, scod_date) THEN "False"
        ELSE "None"

\* three_year_tafmsd_check letting a member through whose 36 months end on
\* the closeout date.
three_year_tafmsd_check_Strict(scod_as_datetime, tafmsd) ==
    LET t == parse_date(AsValue(tafmsd))
    IN  IF t = None THEN FALSE
        ELSE Before(AddMonths(t, 36), scod_as_datetime)

\* three_year_tafmsd_check (board_filter.py).
three_year_tafmsd_check(scod_as_datetime, tafmsd) ==
    LET t == parse_date(AsValue(tafmsd))
    IN  IF t = None THEN FALSE
        ELSE OnOrBefore(AddMonths(t, 36), scod_as_datetime)

(***************************************************************************)
(* Values of the UIF_CODE cell: None, NaN, an int, a float (given in       *)
(* tenths, or infinite) or a str given by its characters.                  *)
(***************************************************************************)

UifNone        == [kind |-> "None",  n |-> 0, inf |-> FALSE, chars |-> <<>>]
UifNaN         == [kind |-> "NaN",   n |-> 0, inf |-> FALSE, chars |-> <<>>]
UifInt(n)      == [kind |-> "int",   n |-> n, inf |-> FALSE, chars |-> <<>>]
UifFloat(tenths) == [kind |-> "float", n |-> tenths, inf |-> FALSE, chars |-> <<>>]
UifInf         == [kind |-> "float", n |-> 0, inf |-> TRUE,  chars |-> <<>>]
UifStr(chars)  == [kind |-> "str",   n |-> 0, inf |-> FALSE, chars |-> chars]

\* int(str) succeeds on a non-empty run of digits.
IsDecimal(chars) ==
    chars # <<>> /\ \A i \in DOMAIN chars : IsDigit(chars[i])

RECURSIVE DecimalValue(_)
DecimalValue(chars) ==
    IF chars = <<>> THEN 0
    ELSE 10 * DecimalValue(SubSeq(chars, 1, Len(chars) - 1))
         + (ord(chars[Len(chars)]) - ord("0"))

\* Step 8's normalisation of uif_code (board_filter.py): the integer, with
\* raised set when int() raises something other than TypeError/ValueError.
NormaliseUif(uif_code) ==
    CASE uif_code.kind \in {"None", "NaN"} -> [raised |-> FALSE, n |-> 0]
      [] uif_code.kind = "str" ->
            IF uif_code.chars = <<>> THEN [raised |-> FALSE, n |-> 0]
            ELSE IF IsDecimal(uif_code.chars)
            THEN [raised |-> FALSE, n |-> DecimalValue(uif_code.chars)]
            ELSE [raised |-> FALSE, n |-> 0]
      [] uif_code.kind = "int" -> [raised |-> FALSE, n |-> uif_code.n]
      [] uif_code.kind = "float" ->
            IF uif_code.inf THEN [raised |-> TRUE, n |-> 0]
            ELSE [raised |-> FALSE,
                  n |-> IF uif_code.n >= 0 THEN uif_code.n \div 10
                        ELSE - ((- uif_code.n) \div 10)]

(***************************************************************************)
(* board_filter (board_filter.py).  The value returned is a record: value  *)
(* is "True", "False", "discrepancy" or "None", reason the second member   *)
(* of the tuple ("" when there is none).                                   *)
(***************************************************************************)

RetTrue            == [value |-> "True",        reason |-> ""]
RetBtz             == [value |-> "True",        reason |-> "btz"]
RetNone            == [value |-> "None",        reason |-> ""]
RetFalse(reason)   == [value |-> "False",       reason |-> reason]
RetDiscrepancy(reason) == [value |-> "discrepancy", reason |-> reason]

\* An exception leaving the code that raised it, with its str(e).
Raise(msg) == [value |-> "raise", reason |-> msg]

\* str(e) of the exceptions the body can raise.
NoSplit  == "'NoneType' object has no attribute 'split'"

\* The head of OutOfBoundsDatetime's text; the value that follows it is left
\* out.
OutOfBounds == "Out of bounds nanosecond timestamp"
IntOfInf == "cannot convert float infinity to integer"

\* Step 2: the closeout date, with the year moved for a January-March month.
Scod(grade, year) ==
    LET scod_month_day == SCODS[grade]
        scod_year == IF scod_month_day.mon \in {"JAN", "FEB", "MAR"}
                     THEN year + 1 ELSE year
    IN  strptime(scod_month_day, scod_year)

TigEligibilityMonth(grade, year) ==
    AddMonths(strptime(TIG[grade], year + 1), - TIG_MONTHS_REQUIRED[grade])

TafmsdRequiredDate(grade, year) ==
    LET tafmsd_years == TAFMSD[grade].hundredths
        formatted_tig_selection_month == strptime(TIG[grade], year + 1)
    IN  IF tafmsd_years < 100
        THEN AddMonths(formatted_tig_selection_month, - ((tafmsd_years * 12) \div 100))
        ELSE AddMonths(formatted_tig_selection_month,
                       - (12 * (tafmsd_years \div 100)
                          + ((tafmsd_years % 100) * 12) \div 100))

\* Step 7 with a window that holds its two end dates.
HytDate_Closed(grade, tafmsd) ==
    LET hyt_years == MAIN_HIGHER_TENURE[grade]
        hyt_date  == AddMonths(tafmsd, 12 * hyt_years)
    IN  IF OnOrBefore(hyt_start_date, hyt_date)
           /\ OnOrBefore(hyt_date, hyt_end_date)
        THEN AddMonths(tafmsd, 12 * EXCEPTION_HIGHER_TENURE[grade])
        ELSE hyt_date

\* Step 7: the higher-tenure date after the exception window is applied.
HytDate(grade, tafmsd) ==
    LET hyt_years == MAIN_HIGHER_TENURE[grade]
        hyt_date  == AddMonths(tafmsd, 12 * hyt_years)
    IN  IF Before(hyt_start_date, hyt_date) /\ Before(hyt_date, hyt_end_date)
        THEN AddMonths(tafmsd, 12 * EXCEPTION_HIGHER_TENURE[grade])
        ELSE hyt_date

Mdos(grade, year) == strptime(MDOS[grade], year + 1)

\* Step 11: the final determination.
Step11(btz_check) ==
    IF btz_check = "True" THEN RetBtz ELSE RetTrue

\* Step 10: the skill-level check, skipped for SMS and MSG.
Step10(a, btz_check) ==
    IF /\ a.grade \notin {"SMS", "MSG"}
       /\ pafsc_check(a.grade, a.pafsc, a.two_afsc, a.three_afsc, a.four_afsc)
              = "False"
    THEN RetDiscrepancy("Insufficient PAFSC skill level.")
    ELSE Step11(btz_check)

\* Step 9 looking the code up among the descriptions instead of the keys.
Step9_Values(a, btz_check) ==
    LET re_status == IF isna(a.re_status) THEN NoneCell ELSE a.re_status
    IN  IF /\ re_status.kind = "str"
           /\ re_status.s # ""
           /\ re_status.s \in {RE_CODES[c] : c \in DOMAIN RE_CODES}
        THEN RetDiscrepancy(re_status.s \o ": " \o re_status.s)
        ELSE Step10(a, btz_check)

\* Step 9: the RE status check.
Step9(a, btz_check) ==
    LET re_status == IF isna(a.re_status) THEN NoneCell ELSE a.re_status
    IN  IF /\ re_status.kind = "str"
           /\ re_status.s # ""
           /\ re_status.s \in DOMAIN RE_CODES
        THEN RetDiscrepancy(re_status.s \o ": " \o RE_CODES[re_status.s])
        ELSE Step10(a, btz_check)

\* Step 8 flagging every code from 1 on.
Step8_FromOne(a, scod_as_datetime, uif_disposition_date, btz_check) ==
    LET uif == NormaliseUif(a.uif_code)
    IN  IF uif.raised
        THEN Raise(IntOfInf)
        ELSE IF /\ uif.n >= 1
                /\ uif_disposition_date # None
                /\ Before(uif_disposition_date, scod_as_datetime)
        THEN RetDiscrepancy("UIF code: " \o ToString(uif.n))
        ELSE Step9(a, btz_check)

\* Step 8 with the RE status check made before the UIF check.
Step8_ReFirst(a, scod_as_datetime, uif_disposition_date, btz_check) ==
    LET uif == NormaliseUif(a.uif_code)
        re_status == IF isna(a.re_status) THEN NoneCell ELSE a.re_status
    IN  IF uif.raised
        THEN Raise(IntOfInf)
        ELSE IF /\ re_status.kind = "str"
                /\ re_status.s # ""
                /\ re_status.s \in DOMAIN RE_CODES
        THEN RetDiscrepancy(re_status.s \o ": " \o RE_CODES[re_status.s])
        ELSE IF /\ uif.n > 1
                /\ uif_disposition_date # None
                /\ Before(uif_disposition_date, scod_as_datetime)
        THEN RetDiscrepancy("UIF code: " \o ToString(uif.n))
        ELSE Step10(a, btz_check)

\* Step 8: the UIF check.
Step8(a, scod_as_datetime, uif_disposition_date, btz_check) ==
    LET uif == NormaliseUif(a.uif_code)
    IN  IF uif.raised
        THEN Raise(IntOfInf)
        ELSE IF /\ uif.n > 1
                /\ uif_disposition_date # None
                /\ Before(uif_disposition_date, scod_as_datetime)
        THEN RetDiscrepancy("UIF code: " \o ToString(uif.n))
        ELSE Step9(a, btz_check)

\* Steps 4 to 7 failing a date of rank that is the time-in-grade cutoff.
Step4to7_TigOnCutoff(a, date_of_rank, uif_disposition_date, tafmsd, btz_check) ==
    LET scod_as_datetime == Scod(a.grade, a.year)
    IN  IF /\ a.grade \in {"A1C", "AMN", "AB"}
           /\ three_year_tafmsd_check(scod_as_datetime, tafmsd)
        THEN RetFalse("SRA 2 Feb - 31 Mar or 3yr TIS")
        ELSE IF date_of_rank = None
                \/ ~ Before(date_of_rank, TigEligibilityMonth(a.grade, a.year))
        THEN RetFalse("TIG: < " \o ToString(TIG_MONTHS_REQUIRED[a.grade])
                      \o " months")
        ELSE IF After(tafmsd, TafmsdRequiredDate(a.grade, a.year))
        THEN RetFalse("TIS < " \o TAFMSD[a.grade].text \o " years")
        ELSE IF Before(HytDate(a.grade, tafmsd), Mdos(a.grade, a.year))
        THEN RetFalse("Higher tenure.")
        ELSE Step8(a, scod_as_datetime, uif_disposition_date, btz_check)

\* Steps 4 to 7, the date rules after the A1C sub-check; btz_check is
\* "None" unless the below-the-zone sub-check ran.
Step4to7(a, date_of_rank, uif_disposition_date, tafmsd, btz_check) ==
    LET scod_as_datetime == Scod(a.grade, a.year)
    IN  IF /\ a.grade \in {"A1C", "AMN", "AB"}
           /\ three_year_tafmsd_check(scod_as_datetime, tafmsd)
        THEN RetFalse("SRA 2 Feb - 31 Mar or 3yr TIS")
        ELSE IF date_of_rank = None
                \/ After(date_of_rank, TigEligibilityMonth(a.grade, a.year))
        THEN RetFalse("TIG: < " \o ToString(TIG_MONTHS_REQUIRED[a.grade])
                      \o " months")
        ELSE IF After(tafmsd, TafmsdRequiredDate(a.grade, a.year))
        THEN RetFalse("TIS < " \o TAFMSD[a.grade].text \o " years")
        ELSE IF Before(HytDate(a.grade, tafmsd), Mdos(a.grade, a.year))
        THEN RetFalse("Higher tenure.")
        ELSE Step8(a, scod_as_datetime, uif_disposition_date, btz_check)

\* Step 3 returning ineligible when the below-the-zone sub-check fails.
Step3_BtzIneligible(a, date_of_rank, uif_disposition_date, tafmsd) ==
    LET eligibility_status == check_a1c_eligbility(date_of_rank, a.year)
        btz_check          == btz_elgibility_check(date_of_rank, a.year)
    IN  IF a.grade = "A1C" /\ eligibility_status = "None"
        THEN IF ~ btz_check
             THEN RetFalse("Failed A1C Check.")
             ELSE Step4to7(a, date_of_rank, uif_disposition_date, tafmsd, "True")
        ELSE IF a.grade = "A1C" /\ eligibility_status = "False"
        THEN RetFalse("Failed A1C Check.")
        ELSE Step4to7(a, date_of_rank, uif_disposition_date, tafmsd, "None")

\* Step 3: the A1C sub-checks.
Step3(a, date_of_rank, uif_disposition_date, tafmsd) ==
    LET eligibility_status == check_a1c_eligbility(date_of_rank, a.year)
        btz_check          == btz_elgibility_check(date_of_rank, a.year)
    IN  IF a.grade = "A1C" /\ eligibility_status = "None"
        THEN IF ~ btz_check
             THEN RetNone
             ELSE Step4to7(a, date_of_rank, uif_disposition_date, tafmsd, "True")
        ELSE IF a.grade = "A1C" /\ eligibility_status = "False"
        THEN RetFalse("Failed A1C Check.")
        ELSE Step4to7(a, date_of_rank, uif_disposition_date, tafmsd, "None")

\* Step 2: the key dates; the first table lookup raises for a grade the
\* tables lack.
Step2(a, date_of_rank, uif_disposition_date, tafmsd) ==
    IF a.grade \notin DOMAIN SCODS
    THEN Raise(NoSplit)
    ELSE Step3(a, date_of_rank, uif_disposition_date, tafmsd)

\* Step 1 returning only when both required dates are missing.
Step1_BothMissing(a) ==
    LET date_of_rank         == parse_date(a.date_of_rank)
        uif_disposition_date == parse_date(a.uif_disposition_date)
        tafmsd               == parse_date(a.tafmsd)
    IN  IF OutOfBoundsDatetime \in {date_of_rank, uif_disposition_date, tafmsd}
        THEN Raise(OutOfBounds)
        ELSE IF date_of_rank = None /\ tafmsd = None
        THEN RetFalse("Required date missing or unreadable")
        ELSE Step2(a, date_of_rank, uif_disposition_date, tafmsd)

\* The body of board_filter's try block, from step 1.
Step1(a) ==
    LET date_of_rank         == parse_date(a.date_of_rank)
        uif_disposition_date == parse_date(a.uif_disposition_date)
        tafmsd               == parse_date(a.tafmsd)
    IN  IF OutOfBoundsDatetime \in {date_of_rank, uif_disposition_date, tafmsd}
        THEN Raise(OutOfBounds)
        ELSE IF date_of_rank = None \/ tafmsd = None
        THEN RetFalse("Required date missing or unreadable")
        ELSE Step2(a, date_of_rank, uif_disposition_date, tafmsd)

\* board_filter without the except clause: the exception reaches the caller.
board_filter_NoExcept(a) == Step1(a)

\* try: ... except Exception as e: return False, f'Processing error: {e}'
board_filter(a) ==
    LET r == Step1(a)
    IN  IF r.value = "raise"
        THEN RetFalse("Processing error: " \o r.reason)
        ELSE r

(***************************************************************************)
(* accounting_date_check (accounting_date_check.py): "True" or "False",    *)
(* or "raise" when the exception of the table lookup leaves the function.  *)
(* NaT is truthy, so it gets past line 25, and NaT > datetime is false.    *)
(***************************************************************************)

AdjustedAccountingDate(grade, year) ==
    LET accounting_date == AddDays(Scod(grade, year), - ACCOUNTING_DATE_OFFSET_DAYS)
    IN  [accounting_date EXCEPT !.day = 3, !.hour = 23, !.minute = 59, !.second = 59]

\* The comparison of line 53 turned round: arrivals before the accounting
\* date are the ones rejected.
accounting_date_check_Reversed(date_arrived_station, grade, year) ==
    IF date_arrived_station = None THEN "False"
    ELSE IF grade \notin DOMAIN SCODS THEN "raise"
    ELSE IF /\ date_arrived_station # NaT
            /\ Before(date_arrived_station, AdjustedAccountingDate(grade, year))
    THEN "False"
    ELSE "True"

accounting_date_check(date_arrived_station, grade, year) ==
    IF date_arrived_station = None THEN "False"
    ELSE IF grade \notin DOMAIN SCODS THEN "raise"
    ELSE IF /\ date_arrived_station # NaT
            /\ After(date_arrived_station, AdjustedAccountingDate(grade, year))
    THEN "False"
    ELSE "True"

(***************************************************************************)
(* roster_processor (roster_processor.py).  A row of the roster is a       *)
(* function from the column names to cells.  A text cell whose characters  *)
(* the code does not inspect has an empty chars.  A dict is a function,    *)
(* extended with :> and @@.                                                *)
(***************************************************************************)

REQUIRED_COLUMNS ==
    <<"FULL_NAME", "GRADE", "ASSIGNED_PAS_CLEARTEXT", "DAFSC", "DOR",
      "DATE_ARRIVED_STATION", "TAFMSD", "REENL_ELIG_STATUS", "ASSIGNED_PAS",
      "PAFSC">>

OPTIONAL_COLUMNS ==
    <<"GRADE_PERM_PROJ", "UIF_CODE", "UIF_DISPOSITION_DATE", "2AFSC", "3AFSC",
      "4AFSC">>

PROMOTIONAL_MAP ==
    [g \in {"SRA", "SSG", "TSG", "MSG", "SMS"} |->
        CASE g = "SRA" -> "SSG" [] g = "SSG" -> "TSG" [] g = "TSG" -> "MSG"
          [] g = "MSG" -> "SMS" [] g = "SMS" -> "CMS"]

OFFICER_RANKS ==
    {"2LT", "1LT", "CPT", "MAJ", "LTC", "COL", "BG", "MG", "LTG", "GEN"}

ENLISTED_RANKS == {"AB", "AMN", "A1C", "SRA", "SSG", "TSG", "MSG", "SMS", "CMS"}

small_unit_threshold == 10

Range(seq) == {seq[i] : i \in DOMAIN seq}

\* A text cell given as a whole.
Cell(s) == Str(<<>>, s)

\* str(x) of a text cell inside an f-string.
CellText(cell) ==
    CASE cell.kind = "str" -> cell.s
      [] cell.kind = "NaN" -> "nan"
      [] OTHER -> "None"

\* cell == text, for a cell that may be NaN or None.
CellIs(cell, text) == cell.kind = "str" /\ cell.s = text

\* The date columns after lines 68-74.  parse_date gives a datetime or
\* None for each cell; pandas keeps the results as a datetime64 column,
\* where an absent date is NaT, as soon as one of them is a datetime, and
\* as a column of None otherwise.
ParsedColumn(rows, col, i) ==
    LET parsed == parse_date(rows[i][col])
    IN  IF parsed # None THEN Structured(parsed)
        ELSE IF \E j \in DOMAIN rows : parse_date(rows[j][col]) # None
        THEN NaN
        ELSE Missing

date_columns == {"DOR", "UIF_DISPOSITION_DATE", "TAFMSD", "DATE_ARRIVED_STATION"}

ParseDateColumns(rows) ==
    [i \in DOMAIN rows |->
        [col \in DOMAIN rows[i] |->
            IF col \in date_columns THEN ParsedColumn(rows, col, i)
            ELSE rows[i][col]]]

\* The value of a parsed date cell as accounting_date_check receives it.
CellDatetime(cell) ==
    CASE cell.kind = "datetime" -> cell.dt
      [] cell.kind = "NaN" -> NaT
      [] OTHER -> None

\* parse_date's third step seen from its caller (date_parsing.py, lines
\* 33-34): the log after the call.  A None name or an empty log leaves the
\* log as it is.
parse_date_log(value, error_log, full_name) ==
    IF /\ value.kind \notin {"None", "NaN"}
       /\ ~ (value.kind = "str" /\ value.text = NoText)
       /\ parse_date(value) = None
       /\ error_log # <<>>
       /\ full_name.kind = "str" /\ full_name.s # ""
    THEN Append(error_log, "Date parsing failed for " \o full_name.s)
    ELSE error_log

\* The log after parse_date has been applied to rows i.. of one column.
RECURSIVE ApplyLog(_, _, _, _)
ApplyLog(rows, col, i, error_log) ==
    IF i > Len(rows) THEN error_log
    ELSE ApplyLog(rows, col, i + 1,
                  parse_date_log(rows[i][col], error_log, NoneCell))

\* get(key, default) of a dict.
Get(dict, key, default) == IF key \in DOMAIN dict THEN dict[key] ELSE default

\* Screen without lines 112-113: a row of another grade goes on to the gate.
Screen_AnyGrade(row, cycle, year) ==
    LET projected_grade == row.GRADE_PERM_PROJ
        next_grade == IF cycle \in DOMAIN PROMOTIONAL_MAP
                      THEN CellIs(projected_grade, PROMOTIONAL_MAP[cycle])
                      ELSE projected_grade.kind = "None"
        valid_member ==
            accounting_date_check(CellDatetime(row.DATE_ARRIVED_STATION),
                                  cycle, year)
    IN  IF row.GRADE.kind = "str" /\ row.GRADE.s \in OFFICER_RANKS
        THEN "officer"
        ELSE IF ~ (row.GRADE.kind = "str" /\ row.GRADE.s \in ENLISTED_RANKS)
        THEN "unknown"
        ELSE IF next_grade THEN "next_grade"
        ELSE IF valid_member = "raise" THEN "raise"
        ELSE IF valid_member = "False" THEN "gate"
        ELSE "admitted"

\* Lines 87-118: where the row leaves the loop body, or "admitted".
Screen(row, cycle, year) ==
    LET projected_grade == row.GRADE_PERM_PROJ
        next_grade == IF cycle \in DOMAIN PROMOTIONAL_MAP
                      THEN CellIs(projected_grade, PROMOTIONAL_MAP[cycle])
                      ELSE projected_grade.kind = "None"
        has_projected_grade == CellIs(projected_grade, cycle)
        grade_matches_cycle ==
            \/ CellIs(row.GRADE, cycle)
            \/ CellIs(row.GRADE, "A1C") /\ cycle = "SRA"
        valid_member ==
            accounting_date_check(CellDatetime(row.DATE_ARRIVED_STATION),
                                  cycle, year)
    IN  IF row.GRADE.kind = "str" /\ row.GRADE.s \in OFFICER_RANKS
        THEN "officer"
        ELSE IF ~ (row.GRADE.kind = "str" /\ row.GRADE.s \in ENLISTED_RANKS)
        THEN "unknown"
        ELSE IF next_grade THEN "next_grade"
        ELSE IF ~ (grade_matches_cycle \/ has_projected_grade)
        THEN "wrong_cycle"
        ELSE IF valid_member = "raise" THEN "raise"
        ELSE IF valid_member = "False" THEN "gate"
        ELSE "admitted"

\* FirstMissing that passes over the date columns, leaving a missing date
\* to board_filter.
RECURSIVE FirstMissing_NoDates(_, _)
FirstMissing_NoDates(row, columns) ==
    IF columns = <<>> THEN ""
    ELSE IF /\ Head(columns) \in DOMAIN row
            /\ Head(columns) \notin date_columns
            /\ isna(row[Head(columns)])
    THEN Head(columns)
    ELSE FirstMissing_NoDates(row, Tail(columns))

\* Lines 131-137: the first required column whose cell is missing, or "".
RECURSIVE FirstMissing(_, _)
FirstMissing(row, columns) ==
    IF columns = <<>> THEN ""
    ELSE IF Head(columns) \in DOMAIN row /\ isna(row[Head(columns)])
    THEN Head(columns)
    ELSE FirstMissing(row, Tail(columns))

\* The arguments of the call of lines 164-167.
BoardArgs(row, year) ==
    [grade |-> row.GRADE.s, year |-> year, date_of_rank |-> row.DOR,
     uif_code |-> row.UIF_CODE,
     uif_disposition_date |-> row.UIF_DISPOSITION_DATE,
     tafmsd |-> row.TAFMSD, re_status |-> row.REENL_ELIG_STATUS,
     pafsc |-> row.PAFSC, two_afsc |-> row["2AFSC"],
     three_afsc |-> row["3AFSC"], four_afsc |-> row["4AFSC"]]

\* unit_total_map[pas] = unit_total_map.get(pas, 0) + 1
CountUnit(unit_total_map, pas) ==
    (pas :> (Get(unit_total_map, pas, 0) + 1)) @@ unit_total_map

\* Place with a below-the-zone member also appended to the eligible list.
Place_BtzEligible(l, index, row, member_status) ==
    CASE member_status.value = "None" -> l
      [] member_status.value = "discrepancy" ->
            [l EXCEPT
                !.eligible_service_members = Append(@, index),
                !.discrepancy_service_members = Append(@, index),
                !.unit_total_map = CountUnit(@, row.ASSIGNED_PAS.s),
                !.reason_for_ineligible_map =
                    (index :> member_status.reason) @@ @]
      [] member_status = RetBtz ->
            [l EXCEPT
                !.eligible_service_members = Append(@, index),
                !.eligible_btz_service_members = Append(@, index),
                !.unit_total_map = CountUnit(@, row.ASSIGNED_PAS.s)]
      [] member_status.value = "False" ->
            [l EXCEPT
                !.ineligible_service_members = Append(@, index),
                !.reason_for_ineligible_map =
                    (index :> member_status.reason) @@ @]
      [] member_status = RetTrue ->
            [l EXCEPT
                !.eligible_service_members = Append(@, index),
                !.unit_total_map = CountUnit(@, row.ASSIGNED_PAS.s)]
      [] OTHER -> l

\* Lines 169-214: the lists and maps after the verdict has been filed.
Place(l, index, row, member_status) ==
    CASE member_status.value = "None" -> l
      [] member_status.value = "discrepancy" ->
            [l EXCEPT
                !.eligible_service_members = Append(@, index),
                !.discrepancy_service_members = Append(@, index),
                !.unit_total_map = CountUnit(@, row.ASSIGNED_PAS.s),
                !.reason_for_ineligible_map =
                    (index :> member_status.reason) @@ @]
      [] member_status = RetBtz ->
            [l EXCEPT
                !.eligible_btz_service_members = Append(@, index),
                !.unit_total_map = CountUnit(@, row.ASSIGNED_PAS.s)]
      [] member_status.value = "False" ->
            [l EXCEPT
                !.ineligible_service_members = Append(@, index),
                !.reason_for_ineligible_map =
                    (index :> member_status.reason) @@ @]
      [] member_status = RetTrue ->
            [l EXCEPT
                !.eligible_service_members = Append(@, index),
                !.unit_total_map = CountUnit(@, row.ASSIGNED_PAS.s)]
      [] OTHER -> l

\* Admit without line 150: a member projected for the cycle grade is
\* listed as ineligible and no reason is stored.
Admit_NoProjectedReason(l, index, row, cycle, year) ==
    LET column == FirstMissing(row, REQUIRED_COLUMNS)
        tracked ==
            IF row.ASSIGNED_PAS.s \in Range(l.pascodes) THEN l
            ELSE [l EXCEPT
                     !.pascodes = Append(@, row.ASSIGNED_PAS.s),
                     !.pascodeUnitMap =
                         (row.ASSIGNED_PAS.s :> row.ASSIGNED_PAS_CLEARTEXT.s) @@ @]
    IN  IF column # ""
        THEN [l EXCEPT
                 !.error_log =
                     Append(@, "Missing required data at row "
                               \o ToString(index) \o ", column " \o column),
                 !.ineligible_service_members = Append(@, index),
                 !.reason_for_ineligible_map =
                     (index :> "Missing required data") @@ @]
        ELSE IF CellIs(row.GRADE_PERM_PROJ, cycle)
        THEN [l EXCEPT !.ineligible_service_members = Append(@, index)]
        ELSE Place(tracked, index, row, board_filter(BoardArgs(row, year)))

\* Admit without lines 148-153: a member projected for the cycle grade is
\* handed to board_filter like any other.
Admit_ProjectedEvaluated(l, index, row, cycle, year) ==
    LET column == FirstMissing(row, REQUIRED_COLUMNS)
        tracked ==
            IF row.ASSIGNED_PAS.s \in Range(l.pascodes) THEN l
            ELSE [l EXCEPT
                     !.pascodes = Append(@, row.ASSIGNED_PAS.s),
                     !.pascodeUnitMap =
                         (row.ASSIGNED_PAS.s :> row.ASSIGNED_PAS_CLEARTEXT.s) @@ @]
    IN  IF column # ""
        THEN [l EXCEPT
                 !.error_log =
                     Append(@, "Missing required data at row "
                               \o ToString(index) \o ", column " \o column),
                 !.ineligible_service_members = Append(@, index),
                 !.reason_for_ineligible_map =
                     (index :> "Missing required data") @@ @]
        ELSE Place(tracked, index, row, board_filter(BoardArgs(row, year)))

\* Admit with lines 156-158 moved before line 131: the unit of every
\* admitted row is tracked.
Admit_TrackFirst(l, index, row, cycle, year) ==
    LET column == FirstMissing(row, REQUIRED_COLUMNS)
        tracked ==
            IF row.ASSIGNED_PAS.s \in Range(l.pascodes) THEN l
            ELSE [l EXCEPT
                     !.pascodes = Append(@, row.ASSIGNED_PAS.s),
                     !.pascodeUnitMap =
                         (row.ASSIGNED_PAS.s :> row.ASSIGNED_PAS_CLEARTEXT.s) @@ @]
    IN  IF column # ""
        THEN [tracked EXCEPT
                 !.error_log =
                     Append(@, "Missing required data at row "
                               \o ToString(index) \o ", column " \o column),
                 !.ineligible_service_members = Append(@, index),
                 !.reason_for_ineligible_map =
                     (index :> "Missing required data") @@ @]
        ELSE IF CellIs(row.GRADE_PERM_PROJ, cycle)
        THEN [tracked EXCEPT
                 !.ineligible_service_members = Append(@, index),
                 !.reason_for_ineligible_map =
                     (index :> ("Projected for " \o cycle \o ".")) @@ @]
        ELSE Place(tracked, index, row, board_filter(BoardArgs(row, year)))

\* Lines 130-214: an admitted row is checked for missing required data and
\* for a projection to the cycle grade, its unit is tracked, and the
\* verdict of board_filter is filed.
Admit(l, index, row, cycle, year) ==
    LET column == FirstMissing(row, REQUIRED_COLUMNS)
        tracked ==
            IF row.ASSIGNED_PAS.s \in Range(l.pascodes) THEN l
            ELSE [l EXCEPT
                     !.pascodes = Append(@, row.ASSIGNED_PAS.s),
                     !.pascodeUnitMap =
                         (row.ASSIGNED_PAS.s :> row.ASSIGNED_PAS_CLEARTEXT.s) @@ @]
    IN  IF column # ""
        THEN [l EXCEPT
                 !.error_log =
                     Append(@, "Missing required data at row "
                               \o ToString(index) \o ", column " \o column),
                 !.ineligible_service_members = Append(@, index),
                 !.reason_for_ineligible_map =
                     (index :> "Missing required data") @@ @]
        ELSE IF CellIs(row.GRADE_PERM_PROJ, cycle)
        THEN [l EXCEPT
                 !.ineligible_service_members = Append(@, index),
                 !.reason_for_ineligible_map =
                     (index :> ("Projected for " \o cycle \o ".")) @@ @]
        ELSE Place(tracked, index, row, board_filter(BoardArgs(row, year)))

\* Lines 81-214: the body of the loop for one row.
ProcessRow(l, index, row, cycle, year) ==
    LET screen == Screen(row, cycle, year)
    IN  CASE screen = "officer" ->
                [l EXCEPT !.error_log =
                    Append(@, "Officer " \o CellText(row.FULL_NAME) \o " ("
                              \o CellText(row.GRADE)
                              \o ") excluded from enlisted promotion processing")]
          [] screen = "unknown" ->
                [l EXCEPT !.error_log =
                    Append(@, "Unknown or unsupported rank: "
                              \o CellText(row.GRADE) \o " for "
                              \o CellText(row.FULL_NAME))]
          [] screen \in {"next_grade", "wrong_cycle", "gate"} -> l
          [] screen = "raise" -> [l EXCEPT !.pc = "raised"]
          [] OTHER -> Admit(l, index, row, cycle, year)

\* ', '.join(columns)
RECURSIVE Join(_)
Join(columns) ==
    IF columns = <<>> THEN ""
    ELSE IF Len(columns) = 1 THEN columns[1]
    ELSE columns[1] \o ", " \o Join(Tail(columns))

\* The local variables of lines 38-51; pc is the position in the function
\* and index the number of rows the loop has taken.
Locals ==
    [pc |-> "start", index |-> 0, filtered_roster_df |-> <<>>,
     eligible_service_members |-> <<>>,
     eligible_btz_service_members |-> <<>>,
     ineligible_service_members |-> <<>>,
     small_unit_eligible_service_members |-> <<>>,
     discrepancy_service_members |-> <<>>,
     pascodes |-> <<>>, small_unit_pascodes |-> {},
     reason_for_ineligible_map |-> <<>>, pascodeUnitMap |-> <<>>,
     unit_total_map |-> <<>>, error_log |-> <<>>]

\* update_session(session_id, key=value)
update_session(s, key, value) == (key :> value) @@ s

\* Lines 257-261: the units that are small.
SmallUnitPascodes(unit_total_map, cycle) ==
    { pascode \in DOMAIN unit_total_map :
        \/ cycle = "MSG" \/ cycle = "SMS"
        \/ unit_total_map[pascode] <= small_unit_threshold }

\* Lines 263-267: the rows of eligible_df whose unit is small.
SmallUnitMembers(l, small_unit_pascodes) ==
    SelectSeq(l.eligible_service_members,
              LAMBDA index :
                  l.filtered_roster_df[index + 1].ASSIGNED_PAS.s
                      \in small_unit_pascodes)

\* recalculate_small_units, line 337: row.get('ASSIGNED_PAS', '') of the
\* row of eligible_df with an index label.
RowPascode(rows, index) ==
    IF rows[index + 1].ASSIGNED_PAS.kind = "str"
    THEN rows[index + 1].ASSIGNED_PAS.s ELSE ""

\* recalculate_small_units, lines 334-339: the rows of eligible_df per unit.
RecalculatedUnitTotalMap(eligible_df, rows) ==
    [pascode \in {RowPascode(rows, eligible_df[i]) : i \in DOMAIN eligible_df}
                     \ {""} |->
        Cardinality({i \in DOMAIN eligible_df :
                        RowPascode(rows, eligible_df[i]) = pascode})]

\* recalculate_small_units (lines 315-360): the session after the call.
\* rows are the rows the stored index labels stand for.
recalculate_small_units(s, rows) ==
    LET cycle       == Get(s, "cycle", "SSG")
        eligible_df == Get(s, "eligible_df", <<>>)
        unit_total_map == RecalculatedUnitTotalMap(eligible_df, rows)
        small_unit_pascodes == SmallUnitPascodes(unit_total_map, cycle)
        small_unit_df ==
            IF small_unit_pascodes # {}
            THEN SelectSeq(eligible_df,
                           LAMBDA index :
                               RowPascode(rows, index) \in small_unit_pascodes)
            ELSE <<>>
    IN  IF eligible_df = <<>>
        THEN update_session(s, "small_unit_df", <<>>)
        ELSE update_session(s, "small_unit_df", small_unit_df)

\* Lines 222-230: a data frame of the ineligible or discrepancy rows with
\* its REASON column; a row without an entry in the map gets NaN.
WithReason(members, reason_for_ineligible_map) ==
    [i \in DOMAIN members |->
        [index |-> members[i],
         REASON |-> Get(reason_for_ineligible_map, members[i], "nan")]]

(***************************************************************************)
(* Inputs of the calls under analysis.                                     *)
(***************************************************************************)

\* Number of cycle years tried, from 2025 on.
NumYears == 1
\* Largest integer UIF code tried.
MaxUifCode == 2

Years == 2025 .. (2025 + NumYears - 1)

\* The grades of the tables and CMS, an enlisted grade the tables lack.
Grades == DOMAIN SCODS \cup {"CMS"}

DorValues ==
    { Text(1, "Jan", 2022), Text(1, "May", 2023), Text(15, "Nov", 2022),
      Structured(DateTime(2025, 9, 1)), Missing, Text(0, "N/A", 0) }

TafmsdValues ==
    { Text(1, "Jan", 2018), Number(37622), Text(1, "Apr", 2023),
      NaN, Text(31, "Feb", 2020) }

UifCodeValues ==
    { UifInt(n) : n \in 0 .. MaxUifCode }
    \cup { UifNaN, UifFloat(25), UifStr(<<"3">>), UifStr(<<"2", ".", "0">>), UifInf }

UifDispositionValues ==
    { Missing, Text(1, "Jun", 2025), Text(31, "Jan", 2026) }

ReStatusValues == { NoneCell, Str(<<"1", "A">>, "1A"), Str(<<"4", "H">>, "4H") }

AFSC_3D137  == Str(<<"3", "D", "1", "3", "7">>, "3D137")
AFSC_3D135  == Str(<<"3", "D", "1", "3", "5">>, "3D135")
AFSC_3D175  == Str(<<"3", "D", "1", "7", "5">>, "3D175")
AFSC_3D1X7  == Str(<<"3", "D", "1", "X", "7">>, "3D1X7")
AFSC_T3D173 == Str(<<"T", "3", "D", "1", "7", "3">>, "T3D173")
AFSC_D3D19  == Str(<<"-", "3", "D", "1", "9">>, "-3D19")
AFSC_8F000  == Str(<<"8", "F", "0", "0", "0">>, "8F000")
AFSC_9S100  == Str(<<"9", "S", "1", "0", "0">>, "9S100")
AFSC_3D1    == Str(<<"3", "D", "1">>, "3D1")

\* <<pafsc, two_afsc, three_afsc, four_afsc>>
AfscValues ==
    { <<AFSC_3D137, NoneCell, NoneCell, NoneCell>>,
      <<AFSC_3D135, NoneCell, NoneCell, NoneCell>>,
      <<AFSC_3D175, NoneCell, NoneCell, NoneCell>>,
      <<AFSC_3D1X7, NoneCell, NoneCell, NoneCell>>,
      <<AFSC_T3D173, NaNCell, NoneCell, NoneCell>>,
      <<AFSC_8F000, AFSC_3D135, NoneCell, NoneCell>>,
      <<AFSC_3D135, AFSC_9S100, NoneCell, NoneCell>>,
      <<AFSC_3D135, NoneCell, NoneCell, AFSC_3D175>>,
      <<NoneCell, AFSC_3D1, AFSC_D3D19, NoneCell>>,
      <<AFSC_3D1, NaNCell, NumberCell, NoneCell>> }

\* args is a member drawn from the given values.
ChooseArgs(G, D, T, U, UD, RE, AF) ==
    \E g \in G, y \in Years, dor \in D, u \in U, ud \in UD, t \in T,
       re \in RE, af \in AF :
        args = [grade |-> g, year |-> y, date_of_rank |-> dor, uif_code |-> u,
                uif_disposition_date |-> ud, tafmsd |-> t, re_status |-> re,
                pafsc |-> af[1], two_afsc |-> af[2], three_afsc |-> af[3],
                four_afsc |-> af[4]]

\* Every pair of dates with a clean and a thrice-flagged member, or the
\* dates that let some grade through with every UIF, RE and specialty value.
BoardFilterArgs ==
    \/ ChooseArgs(Grades, DorValues, TafmsdValues,
                  {UifInt(0), UifInt(2)}, {Missing, Text(1, "Jun", 2025)},
                  {Str(<<"1", "A">>, "1A"), Str(<<"4", "H">>, "4H")},
                  {<<AFSC_3D137, NoneCell, NoneCell, NoneCell>>,
                   <<AFSC_3D175, NoneCell, NoneCell, NoneCell>>})
    \/ ChooseArgs(Grades, {Text(1, "Jan", 2022), Text(1, "May", 2023)},
                  {Text(1, "Jan", 2018), Number(37622), Text(1, "Apr", 2023)},
                  UifCodeValues, UifDispositionValues, ReStatusValues,
                  AfscValues)

\* The cycle years of the boundary cases: from 2024, whose mandatory
\* separation dates fall inside the exception window.
DateYears == 2024 .. (2024 + NumYears)

\* The days before, on and after each of the given dates.
Around(dates) == { AddDays(dt, k) : dt \in dates, k \in -1 .. 1 }

\* Dates of rank at the ends of the windows of the A1C sub-checks (28 and
\* 22 months before 1 February and 31 March of the cycle year and of the
\* year after it) and at the time-in-grade cutoff of the grade.
DorBoundaries(g, y) ==
    Around({ AddMonths(strptime(DayMon(1, "Feb"), y), -28),
             AddMonths(strptime(SCODS["SRA"], y), -28),
             AddMonths(strptime(SCODS["SRA"], y + 1), -28),
             AddMonths(strptime(DayMon(1, "Feb"), y), -22),
             AddMonths(strptime(SCODS["SRA"], y), -22),
             TigEligibilityMonth(g, y) })
    \cup { DateTime(y - 6, 1, 1) }

\* TAFMSDs that put the 36-month date at the closeout date, the TAFMSD at
\* the required date, and the higher-tenure date at the ends of the
\* exception window and at the mandatory-separation date.
TafmsdBoundaries(g, y) ==
    Around({ AddMonths(Scod(g, y), -36),
             TafmsdRequiredDate(g, y),
             AddMonths(hyt_start_date, -12 * MAIN_HIGHER_TENURE[g]),
             AddMonths(hyt_end_date, -12 * MAIN_HIGHER_TENURE[g]),
             AddMonths(Mdos(g, y), -12 * MAIN_HIGHER_TENURE[g]),
             AddMonths(Mdos(g, y), -12 * EXCEPTION_HIGHER_TENURE[g]) })
    \cup { DateTime(y - 6, 1, 1), AddMonths(strptime(DayMon(1, "Feb"), y), -28) }

\* args is a member of a grade of the tables whose dates lie at the
\* boundaries of the date rules; the other fields flag nothing, or the RE
\* code does.
DateArgs ==
    \E g \in DOMAIN SCODS, y \in DateYears :
        \E dor \in DorBoundaries(g, y), t \in TafmsdBoundaries(g, y),
           re \in {Str(<<"1", "A">>, "1A"), Str(<<"4", "H">>, "4H")} :
            args = [grade |-> g, year |-> y, date_of_rank |-> Structured(dor),
                    uif_code |-> UifInt(0), uif_disposition_date |-> Missing,
                    tafmsd |-> Structured(t), re_status |-> re,
                    pafsc |-> AFSC_3D175, two_afsc |-> NoneCell,
                    three_afsc |-> NoneCell, four_afsc |-> NoneCell]

NoArgs == [grade |-> "", year |-> 0, date_of_rank |-> Missing,
           uif_code |-> UifNone, uif_disposition_date |-> Missing,
           tafmsd |-> Missing, re_status |-> NoneCell, pafsc |-> NoneCell,
           two_afsc |-> NoneCell, three_afsc |-> NoneCell,
           four_afsc |-> NoneCell]

Pending == [value |-> "pending", reason |-> ""]

\* Arrival dates around the 3rd of the months the accounting dates fall in.
ArrivalValues ==
    {None} \cup
    { [year |-> 2025, month |-> m, day |-> d, hour |-> t[1], minute |-> t[2],
       second |-> t[3], microsecond |-> t[4]] :
      m \in {4, 6, 8, 10, 12}, d \in {2, 3, 4},
      t \in { <<0, 0, 0, 0>>, <<12, 0, 0, 0>>, <<23, 59, 59, 0>>,
              <<23, 59, 59, 500000>> } }

GateArgs ==
    \E das \in ArrivalValues, g \in Grades, y \in Years :
        gateArgs = [date_arrived_station |-> das, grade |-> g, year |-> y]

NoGateArgs == [date_arrived_station |-> None, grade |-> "", year |-> 0]

\* Longest roster built from arbitrary rows.
MaxRoster == 2
\* Largest number of copies of one row in a roster built from two rows.
MaxBlock == 11

\* The cycle grades upload_file accepts (main.py, line 84) that differ in
\* the rows they admit or in the small-unit rule.
Cycles == {"SRA", "SSG", "MSG"}

\* Unit codes, in the order sorted() gives them.
UnitCodes == <<"AA01", "BB02">>

\* An SSG who is eligible in 2025.
CleanRow ==
    [FULL_NAME |-> Cell("DOE, JOHN"), GRADE |-> Cell("SSG"),
     ASSIGNED_PAS_CLEARTEXT |-> Cell("51 FSS"), DAFSC |-> Cell("3D175"),
     DOR |-> Text(1, "Jan", 2022),
     DATE_ARRIVED_STATION |-> Text(1, "Jan", 2024),
     TAFMSD |-> Text(1, "Jan", 2018),
     REENL_ELIG_STATUS |-> Str(<<"1", "A">>, "1A"),
     ASSIGNED_PAS |-> Cell(UnitCodes[1]), PAFSC |-> AFSC_3D175,
     GRADE_PERM_PROJ |-> NaNCell, UIF_CODE |-> UifInt(0),
     UIF_DISPOSITION_DATE |-> NaN]
    @@ ("2AFSC" :> NaNCell) @@ ("3AFSC" :> NaNCell) @@ ("4AFSC" :> NaNCell)

\* An SRA, an A1C and an MSG who are eligible in 2025.
CleanSRA == [CleanRow EXCEPT !.GRADE = Cell("SRA"), !.DOR = Text(1, "Jan", 2024),
                             !.TAFMSD = Text(1, "Jan", 2021)]
CleanA1C == [CleanRow EXCEPT !.GRADE = Cell("A1C"), !.TAFMSD = Text(1, "Apr", 2023),
                             !.PAFSC = AFSC_3D135]
CleanMSG == [CleanRow EXCEPT !.GRADE = Cell("MSG"), !.TAFMSD = Number(37622)]
\* An A1C taken below the zone.
BtzA1C   == [CleanA1C EXCEPT !.DOR = Text(1, "May", 2023)]

RowValues ==
    { CleanRow, CleanSRA, CleanMSG, BtzA1C,
      [CleanRow EXCEPT !.ASSIGNED_PAS = Cell(UnitCodes[2])],
      [CleanRow EXCEPT !.PAFSC = AFSC_3D137],
      [CleanRow EXCEPT !.TAFMSD = Text(1, "Apr", 2023)],
      [CleanRow EXCEPT !.GRADE = Cell("CPT"), !.DOR = NaN],
      [CleanRow EXCEPT !.GRADE = NaNCell],
      [CleanRow EXCEPT !.GRADE_PERM_PROJ = Cell("TSG"), !.TAFMSD = NaN],
      [CleanSRA EXCEPT !.GRADE_PERM_PROJ = Cell("SSG")],
      [CleanSRA EXCEPT !.REENL_ELIG_STATUS = Str(<<"4", "H">>, "4H")],
      [CleanRow EXCEPT !.DATE_ARRIVED_STATION = Text(4, "Oct", 2025),
                       !.PAFSC = NaNCell],
      [CleanRow EXCEPT !.DATE_ARRIVED_STATION = NaN],
      [CleanRow EXCEPT !.TAFMSD = NaN],
      [CleanRow EXCEPT !.DOR = Text(0, "N/A", 0)],
      [CleanRow EXCEPT !.UIF_DISPOSITION_DATE = Text(0, "N/A", 0)],
      [CleanA1C EXCEPT !.DOR = Structured(DateTime(2025, 9, 1))],
      [CleanRow EXCEPT !.DOR = Structured(DateTime(3000, 1, 1))],
      [CleanSRA EXCEPT !.TAFMSD = NaN, !.ASSIGNED_PAS = Cell(UnitCodes[2])] }

AllColumns == Range(REQUIRED_COLUMNS) \cup Range(OPTIONAL_COLUMNS)

\* The columns of a roster: all of them, with a column the code does not
\* use, without optional columns, without required columns.
ColumnValues ==
    { AllColumns, AllColumns \cup {"SSAN"}, AllColumns \ {"UIF_CODE"},
      AllColumns \ {"2AFSC", "3AFSC", "4AFSC", "GRADE_PERM_PROJ"},
      AllColumns \ {"TAFMSD"}, AllColumns \ {"GRADE", "PAFSC", "UIF_CODE"} }

\* n copies of a row.
Block(row, n) == [i \in 1 .. n |-> row]

\* roster holds rows drawn from the given values, at most n of them.
ChooseRoster(C, R, n) ==
    \E columns \in C, cycle \in Cycles, year \in Years, k \in 0 .. n :
        \E rows \in [1 .. k -> R] :
            roster = [columns |-> columns, rows |-> rows, cycle |-> cycle,
                      year |-> year]

\* roster holds a unit of about small_unit_threshold members of one kind
\* followed by members of a second kind.
ChooseUnits ==
    \E cycle \in Cycles, year \in Years,
       first \in {CleanRow, CleanSRA, CleanMSG},
       k \in (MaxBlock - 2) .. MaxBlock,
       second \in {BtzA1C, CleanSRA,
                   [CleanRow EXCEPT !.ASSIGNED_PAS = Cell(UnitCodes[2])],
                   [CleanRow EXCEPT !.PAFSC = AFSC_3D137]},
       m \in 0 .. 2 :
        roster = [columns |-> AllColumns,
                  rows |-> Block(first, k) \o Block(second, m),
                  cycle |-> cycle, year |-> year]

RosterArgs ==
    \/ ChooseRoster({AllColumns}, RowValues, MaxRoster)
    \/ ChooseRoster(ColumnValues, RowValues, 1)
    \/ ChooseUnits

NoRoster == [columns |-> {}, rows |-> <<>>, cycle |-> "", year |-> 0]

\* sorted(pascodes)
Sorted(pascodes) == SelectSeq(UnitCodes, LAMBDA u : u \in Range(pascodes))

\* Date values of every kind: texts that are dates and texts that are not,
\* serial numbers at the ends of the range of line 19, datetimes and
\* Timestamps at the ends of the nanosecond range, None and NaN.
ParseValues ==
    { Text(d, b, Y) : d \in {0, 1, 29, 31}, b \in {"Jan", "FEB", "Apr", "N/A", ""},
                      Y \in {1600, 2024, 2025, 2262, 2263, 3000} }
    \cup { Number(n) : n \in {-1, 0, 1, 60, 37622, 45658, 132320, 132321,
                              2958465, 2958466} }
    \cup { Structured(dt) :
               dt \in { DateTime(2024, 2, 29), DateTime(1677, 9, 21),
                        DateTime(1677, 9, 22), Timestamp_min, Timestamp_max,
                        [Timestamp_max EXCEPT !.microsecond = @ + 1],
                        [DateTime(2025, 9, 3) EXCEPT !.hour = 23, !.minute = 59,
                                                     !.second = 59,
                                                     !.microsecond = 500000],
                        DateTime(3000, 1, 1), DateTime(9999, 12, 31) } }
    \cup { Stamp(dt, ns) :
               dt \in {DateTime(2024, 1, 1), Timestamp_max}, ns \in {0, 1, 807} }
    \cup { Missing, NaN }

\* No request of the roster endpoints has been made.
NoRequest == [op |-> "none", member_id |-> <<>>, hard_delete |-> FALSE,
              status |-> 0, before |-> <<>>, requests |-> 0]

NoParse == [pc |-> "idle", value |-> Missing, once |-> None, twice |-> None]

(***************************************************************************)
(* Specifications: one call of the function on arguments drawn at Init.    *)
(***************************************************************************)

Init ==
    /\ pc = "call"
    /\ BoardFilterArgs
    /\ ret = Pending
    /\ gateArgs = NoGateArgs
    /\ gateRet = "pending"
    /\ roster = NoRoster
    /\ rp = [Locals EXCEPT !.pc = "idle"]
    /\ session = <<>>
    /\ parse = NoParse
    /\ http = NoRequest

BoardFilterCall ==
    /\ pc = "call"
    /\ args # NoArgs
    /\ ret' = board_filter(args)
    /\ pc' = "done"
    /\ UNCHANGED <<args, gateArgs, gateRet, roster, rp, session, parse, http>>

Next == BoardFilterCall

Spec == Init /\ [][Next]_vars

\* One call of board_filter on a member whose dates lie at the boundaries.
InitDates ==
    /\ pc = "call"
    /\ DateArgs
    /\ ret = Pending
    /\ gateArgs = NoGateArgs
    /\ gateRet = "pending"
    /\ roster = NoRoster
    /\ rp = [Locals EXCEPT !.pc = "idle"]
    /\ session = <<>>
    /\ parse = NoParse
    /\ http = NoRequest

SpecDates == InitDates /\ [][Next]_vars

InitGate ==
    /\ pc = "call"
    /\ args = NoArgs
    /\ ret = Pending
    /\ GateArgs
    /\ gateRet = "pending"
    /\ roster = NoRoster
    /\ rp = [Locals EXCEPT !.pc = "idle"]
    /\ session = <<>>
    /\ parse = NoParse
    /\ http = NoRequest

AccountingDateCheckCall ==
    /\ pc = "call"
    /\ gateArgs # NoGateArgs
    /\ gateRet' = accounting_date_check(gateArgs.date_arrived_station,
                                        gateArgs.grade, gateArgs.year)
    /\ pc' = "done"
    /\ UNCHANGED <<args, ret, gateArgs, roster, rp, session, parse, http>>

NextGate == AccountingDateCheckCall

SpecGate == InitGate /\ [][NextGate]_vars

(***************************************************************************)
(* parse_date on a value drawn at Init, and again on what it returned, as  *)
(* board_filter does to the dates roster_processor has parsed.             *)
(***************************************************************************)

InitParse ==
    /\ pc = "idle"
    /\ args = NoArgs
    /\ ret = Pending
    /\ gateArgs = NoGateArgs
    /\ gateRet = "pending"
    /\ roster = NoRoster
    /\ rp = [Locals EXCEPT !.pc = "idle"]
    /\ session = <<>>
    /\ \E value \in ParseValues : parse = [NoParse EXCEPT !.pc = "call",
                                                          !.value = value]
    /\ http = NoRequest

\* parse_date(value): the value returned, or the exception.
ParseDateCall ==
    /\ parse.pc = "call"
    /\ LET once == parse_date(parse.value)
       IN  parse' = IF once = OutOfBoundsDatetime
                    THEN [parse EXCEPT !.pc = "raised"]
                    ELSE [parse EXCEPT !.pc = "once", !.once = once]
    /\ UNCHANGED <<pc, args, ret, gateArgs, gateRet, roster, rp, session, http>>

\* parse_date of the value the first call returned.
ParseDateAgain ==
    /\ parse.pc = "once"
    /\ LET twice == parse_date(AsValue(parse.once))
       IN  parse' = IF twice = OutOfBoundsDatetime
                    THEN [parse EXCEPT !.pc = "raised"]
                    ELSE [parse EXCEPT !.pc = "twice", !.twice = twice]
    /\ UNCHANGED <<pc, args, ret, gateArgs, gateRet, roster, rp, session, http>>

NextParse == ParseDateCall \/ ParseDateAgain

SpecParse == InitParse /\ [][NextParse]_vars

(***************************************************************************)
(* One call of roster_processor on a roster drawn at Init, taken row by    *)
(* row.  The session holds the cycle and the year (main.py, line 221).     *)
(***************************************************************************)

InitRoster ==
    /\ pc = "idle"
    /\ args = NoArgs
    /\ ret = Pending
    /\ gateArgs = NoGateArgs
    /\ gateRet = "pending"
    /\ RosterArgs
    /\ rp = Locals
    /\ session = [cycle |-> roster.cycle, year |-> roster.year]
    /\ parse = NoParse
    /\ http = NoRequest

\* Lines 53-74: the column check and the parsing of the date columns.  An
\* exception of parse_date leaves roster_processor, which has no try.
RosterStart ==
    /\ rp.pc = "start"
    /\ LET all_roster_columns == REQUIRED_COLUMNS \o OPTIONAL_COLUMNS
           missing_columns ==
               SelectSeq(all_roster_columns,
                         LAMBDA col : col \notin roster.columns)
           error_msg == "Missing required columns: " \o Join(missing_columns)
       IN  IF missing_columns # <<>>
           THEN /\ rp' = [rp EXCEPT !.pc = "failed",
                                    !.error_log = Append(@, error_msg)]
                /\ session' = update_session(session, "error_log",
                                              Append(rp.error_log, error_msg))
           ELSE IF \E i \in DOMAIN roster.rows, col \in date_columns :
                       parse_date(roster.rows[i][col]) = OutOfBoundsDatetime
           THEN /\ rp' = [rp EXCEPT !.pc = "raised"]
                /\ UNCHANGED session
           ELSE /\ rp' = [rp EXCEPT
                     !.pc = "loop",
                     !.filtered_roster_df = ParseDateColumns(roster.rows),
                     !.error_log =
                         ApplyLog(roster.rows, "DATE_ARRIVED_STATION", 1,
                         ApplyLog(roster.rows, "TAFMSD", 1,
                         ApplyLog(roster.rows, "UIF_DISPOSITION_DATE", 1,
                         ApplyLog(roster.rows, "DOR", 1, @))))]
                /\ UNCHANGED session
    /\ UNCHANGED <<pc, args, ret, gateArgs, gateRet, roster, parse, http>>

\* Lines 81-214: one turn of the loop.
RosterRow ==
    /\ rp.pc = "loop"
    /\ rp.index < Len(rp.filtered_roster_df)
    /\ rp' = [ProcessRow(rp, rp.index, rp.filtered_roster_df[rp.index + 1],
                         roster.cycle, roster.year)
                 EXCEPT !.index = rp.index + 1]
    /\ UNCHANGED <<pc, args, ret, gateArgs, gateRet, roster, session, parse, http>>

\* Lines 216-312: the units are sorted, the small units are found and the
\* results are stored in the session.  A data frame is stored as the index
\* labels of its rows.
RosterFinish ==
    /\ rp.pc = "loop"
    /\ rp.index = Len(rp.filtered_roster_df)
    /\ LET pascodes == Sorted(rp.pascodes)
           small_unit_pascodes ==
               SmallUnitPascodes(rp.unit_total_map, roster.cycle)
           small_unit_eligible_service_members ==
               IF rp.eligible_service_members # <<>>
               THEN SmallUnitMembers(rp, small_unit_pascodes)
               ELSE rp.small_unit_eligible_service_members
           s1 == update_session(session, "pascodes", pascodes)
           s2 == update_session(s1, "eligible_df", rp.eligible_service_members)
           s3 == update_session(s2, "ineligible_df",
                     WithReason(rp.ineligible_service_members,
                                rp.reason_for_ineligible_map))
           s4 == update_session(s3, "discrepancy_df",
                     WithReason(rp.discrepancy_service_members,
                                rp.reason_for_ineligible_map))
           s5 == update_session(s4, "btz_df", rp.eligible_btz_service_members)
           s6 == update_session(s5, "small_unit_df",
                                small_unit_eligible_service_members)
           s7 == IF DOMAIN rp.pascodeUnitMap # {}
                 THEN update_session(s6, "pascode_unit_map", rp.pascodeUnitMap)
                 ELSE s6
           s8 == IF rp.error_log # <<>>
                 THEN update_session(s7, "error_log", rp.error_log)
                 ELSE s7
       IN  /\ rp' = [rp EXCEPT
                        !.pc = "done",
                        !.pascodes = pascodes,
                        !.small_unit_pascodes = small_unit_pascodes,
                        !.small_unit_eligible_service_members =
                            small_unit_eligible_service_members]
           /\ session' = s8
    /\ UNCHANGED <<pc, args, ret, gateArgs, gateRet, roster, parse, http>>

NextRoster == RosterStart \/ RosterRow \/ RosterFinish

SpecRoster == InitRoster /\ [][NextRoster]_vars

\* recalculate_small_units on the session roster_processor has filled.
RecalculateSmallUnits ==
    /\ rp.pc = "done"
    /\ pc = "idle"
    /\ session' = recalculate_small_units(session, rp.filtered_roster_df)
    /\ pc' = "recalculated"
    /\ UNCHANGED <<args, ret, gateArgs, gateRet, roster, rp, parse, http>>

NextRecalculate == RosterStart \/ RosterRow \/ RosterFinish \/ RecalculateSmallUnits

SpecRecalculate == InitRoster /\ [][NextRecalculate]_vars

(***************************************************************************)
(* The roster endpoints of main.py: preview, edit, delete and add, over    *)
(* the session roster_processor has filled.  A member is the record of its *)
(* columns; the 'deleted' key is FALSE where the record has no such key or *)
(* holds None, which record.get('deleted', False) does not tell apart.  A  *)
(* member_id is the sequence of the parts that split('_') gives.           *)
(***************************************************************************)

\* Bound: the number of requests the clients make.
MaxRequests == 3

\* str(n) of a list position.
IndexText(n) == Digits[n + 1]

\* int(text): ValueError for a text that is no number.
IsInt(text) == text \in Range(Digits)

IntOf(text) == (CHOOSE n \in DOMAIN Digits : Digits[n] = text) - 1

\* category.split('_') for the categories of get_roster_preview.
Categories ==
    [eligible    |-> <<"eligible">>,
     ineligible  |-> <<"ineligible">>,
     discrepancy |-> <<"discrepancy">>,
     btz         |-> <<"btz">>,
     small_unit  |-> <<"small", "unit">>]

\* f'row_{category}_{n}', lines 338 and 729.
MemberId(category, n) == <<"row">> \o Categories[category] \o <<IndexText(n)>>

UnitNames == [AA01 |-> "1 SQUADRON", BB02 |-> "2 SQUADRON"]

\* A row of the frames roster_processor stores (PDF_COLUMNS).
Member(name, grade, pascode) ==
    [FULL_NAME |-> name, GRADE |-> grade, ASSIGNED_PAS |-> pascode,
     ASSIGNED_PAS_CLEARTEXT |-> UnitNames[pascode],
     deleted |-> FALSE, deletion_reason |-> ""]

\* df_to_list (lines 310-344): the records shown, each under its member_id;
\* at is the position of the record in the stored list.
RECURSIVE df_to_list(_, _, _, _)
df_to_list(records, category, idx, cleaned_records) ==
    IF idx > Len(records) THEN cleaned_records
    ELSE IF records[idx].deleted
         THEN df_to_list(records, category, idx + 1, cleaned_records)
         ELSE df_to_list(records, category, idx + 1,
                  Append(cleaned_records,
                         [member_id   |-> MemberId(category,
                                                   Len(cleaned_records)),
                          FULL_NAME   |-> records[idx].FULL_NAME,
                          GRADE       |-> records[idx].GRADE,
                          ASSIGNED_PAS |-> records[idx].ASSIGNED_PAS,
                          at          |-> idx]))

\* get_roster_preview (lines 288-410): the lists of the response.
get_roster_preview(s) ==
    [category \in DOMAIN Categories |->
        df_to_list(Get(s, category \o "_df", <<>>), category, 1, <<>>)]

\* rescan_and_update_pascodes (lines 31-66).
rescan_and_update_pascodes(s) ==
    LET members ==
            UNION { Range(Get(s, category \o "_df", <<>>)) :
                        category \in DOMAIN Categories }
        all_pascodes ==
            { member.ASSIGNED_PAS :
                member \in { m \in members :
                                ~ m.deleted /\ m.ASSIGNED_PAS # "" } }
        pascode_unit_map ==
            [pas \in all_pascodes |-> UnitNames[pas]]
    IN  update_session(
            update_session(s, "pascodes",
                SelectSeq(UnitCodes, LAMBDA u : u \in all_pascodes)),
            "pascode_unit_map", pascode_unit_map)

\* recalculate_small_units (roster_processor.py, lines 315-360) on the
\* stored records.
RecalculatedSmallUnits(s) ==
    LET cycle       == Get(s, "cycle", "SSG")
        eligible_df == Get(s, "eligible_df", <<>>)
        unit_total_map ==
            [pascode \in { eligible_df[i].ASSIGNED_PAS :
                             i \in DOMAIN eligible_df } \ {""} |->
                Cardinality({ i \in DOMAIN eligible_df :
                                eligible_df[i].ASSIGNED_PAS = pascode })]
        small_unit_pascodes == SmallUnitPascodes(unit_total_map, cycle)
    IN  IF eligible_df = <<>>
        THEN update_session(s, "small_unit_df", <<>>)
        ELSE update_session(s, "small_unit_df",
                 IF small_unit_pascodes # {}
                 THEN SelectSeq(eligible_df,
                                LAMBDA member :
                                    member.ASSIGNED_PAS
                                        \in small_unit_pascodes)
                 ELSE <<>>)

\* Lines 486-500, 603-617, 779-799: what every endpoint does with the
\* lists it has changed.
Stored(s, category_key, data_list, pdf_list) ==
    RecalculatedSmallUnits(
        rescan_and_update_pascodes(
            update_session(
                update_session(
                    update_session(s, category_key, data_list),
                    "pdf_dataframe", pdf_list),
                "edited", TRUE)))

\* Lines 478-485, 593-601: the position of the first entry of pdf_list
\* with the FULL_NAME (and the SSAN, which no stored frame has) of member,
\* 0 when there is none.
Matching(pdf_list, member) ==
    LET found == { i \in DOMAIN pdf_list :
                     pdf_list[i].FULL_NAME = member.FULL_NAME }
    IN  IF found = {} THEN 0
        ELSE CHOOSE i \in found : \A j \in found : i <= j

\* dict.update restricted to the keys the record has (lines 464-472).
Updated(record, member_data) ==
    [key \in DOMAIN record |->
        IF key \in DOMAIN member_data THEN member_data[key] ELSE record[key]]

\* list.pop(index) for a position from 1.
Popped(list, at) ==
    SubSeq(list, 1, at - 1) \o SubSeq(list, at + 1, Len(list))

\* edit_roster_member (lines 411-513): the status and the session after.
edit_roster_member(s, member_id, member_data) ==
    LET parts == member_id
    IN  IF ~ (Len(parts) >= 3 /\ parts[1] = "row")
        THEN [status |-> 400, session |-> s]
        ELSE IF ~ IsInt(parts[3])
        THEN [status |-> 400, session |-> s]
        ELSE
        LET category_name == parts[2]
            index         == IntOf(parts[3])
            category_key  == category_name \o "_df"
            data_list     == Get(s, category_key, <<>>)
        IN  IF index >= Len(data_list)
            THEN [status |-> 404, session |-> s]
            ELSE
            LET original_member == data_list[index + 1]
                pdf_list == Get(s, "pdf_dataframe", <<>>)
                i        == Matching(pdf_list, original_member)
            IN  [status  |-> 200,
                 session |->
                    Stored(s, category_key,
                           [data_list EXCEPT
                               ![index + 1] = Updated(@, member_data)],
                           IF i = 0 THEN pdf_list
                           ELSE [pdf_list EXCEPT
                                    ![i] = Updated(@, member_data)])]

\* delete_roster_member (lines 515-633).  The member looked up in
\* pdf_list is read from the list after the deletion.
delete_roster_member(s, member_id, reason, hard_delete) ==
    LET parts == member_id
    IN  IF reason = ""
        THEN [status |-> 400, session |-> s]
        ELSE IF ~ (Len(parts) >= 3 /\ parts[1] = "row")
        THEN [status |-> 400, session |-> s]
        ELSE IF ~ IsInt(parts[3])
        THEN [status |-> 400, session |-> s]
        ELSE
        LET category_name == parts[2]
            index         == IntOf(parts[3])
            category_key  == category_name \o "_df"
            data_list     == Get(s, category_key, <<>>)
        IN  IF index >= Len(data_list)
            THEN [status |-> 404, session |-> s]
            ELSE
            LET deleted_list ==
                    IF hard_delete
                    THEN Popped(data_list, index + 1)
                    ELSE [data_list EXCEPT
                             ![index + 1].deleted = TRUE,
                             ![index + 1].deletion_reason = reason]
                pdf_list == Get(s, "pdf_dataframe", <<>>)
                i == IF index < Len(pdf_list) /\ index < Len(deleted_list)
                     THEN Matching(pdf_list, deleted_list[index + 1])
                     ELSE 0
            IN  [status  |-> 200,
                 session |->
                    Stored(s, category_key, deleted_list,
                           IF i = 0 THEN pdf_list
                           ELSE IF hard_delete THEN Popped(pdf_list, i)
                           ELSE [pdf_list EXCEPT
                                    ![i].deleted = TRUE,
                                    ![i].deletion_reason = reason])]

\* add_roster_member (lines 635-815) for member_data that names every
\* column: the keys it does not name are copied from the first record of
\* the category.
add_roster_member(s, category, member_data, reason) ==
    IF reason = ""
    THEN [status |-> 400, session |-> s]
    ELSE
    LET category_key  == category \o "_df"
        category_list == Get(s, category_key, <<>>)
        new_member ==
            IF category_list # <<>>
            THEN Updated(category_list[1], member_data)
            ELSE Updated(Member("", "", UnitCodes[1]), member_data)
        pdf_list == Get(s, "pdf_dataframe", <<>>)
    IN  [status  |-> 200,
         session |-> Stored(s, category_key,
                            Append(category_list, new_member),
                            Append(pdf_list, new_member))]

\* The session of an uploaded roster of three members after
\* roster_processor, each member eligible or ineligible.
RosterNames == <<"ADAMS", "BAKER", "CLARK">>

RosterMembers ==
    <<Member(RosterNames[1], "A1C", UnitCodes[1]),
      Member(RosterNames[2], "A1C", UnitCodes[1]),
      Member(RosterNames[3], "A1C", UnitCodes[2])>>

ProcessedSession(eligible) ==
    RecalculatedSmallUnits(
        rescan_and_update_pascodes(
            [cycle          |-> "SRA",
             year           |-> 2025,
             eligible_df    |-> SelectSeq(RosterMembers,
                                    LAMBDA m : m.FULL_NAME \in eligible),
             ineligible_df  |-> SelectSeq(RosterMembers,
                                    LAMBDA m : m.FULL_NAME \notin eligible),
             discrepancy_df |-> <<>>,
             btz_df         |-> <<>>,
             pdf_dataframe  |-> RosterMembers]))

\* The requests of the clients: a member_id names a position of a stored
\* list or the position after its last.
MemberIds(s) ==
    UNION { { MemberId(category, n) :
                n \in 0 .. Len(Get(s, category \o "_df", <<>>)) } :
            category \in DOMAIN Categories }

EditData == { [GRADE |-> "SRA"] }

AddData ==
    [FULL_NAME |-> "DAVIS", GRADE |-> "A1C", ASSIGNED_PAS |-> UnitCodes[2],
     ASSIGNED_PAS_CLEARTEXT |-> UnitNames[UnitCodes[2]]]

InitEndpoints ==
    /\ pc = "idle"
    /\ args = NoArgs
    /\ ret = Pending
    /\ gateArgs = NoGateArgs
    /\ gateRet = "pending"
    /\ roster = NoRoster
    /\ rp = [Locals EXCEPT !.pc = "idle"]
    /\ \E eligible \in SUBSET Range(RosterNames) :
           session = ProcessedSession(eligible)
    /\ parse = NoParse
    /\ http = NoRequest

\* The request and its status, with the session it was made on.
Request(op, member_id, hard_delete, status) ==
    [op |-> op, member_id |-> member_id, hard_delete |-> hard_delete,
     status |-> status, before |-> session, requests |-> http.requests + 1]

GetRosterPreview ==
    /\ http.requests < MaxRequests
    /\ http' = Request("preview", <<>>, FALSE, 200)
    /\ UNCHANGED <<pc, args, ret, gateArgs, gateRet, roster, rp, session,
                   parse>>

EditRosterMember ==
    /\ http.requests < MaxRequests
    /\ \E member_id \in MemberIds(session), member_data \in EditData :
           LET response ==
                   edit_roster_member(session, member_id, member_data)
           IN  /\ session' = response.session
               /\ http' = Request("edit", member_id, FALSE, response.status)
    /\ UNCHANGED <<pc, args, ret, gateArgs, gateRet, roster, rp, parse>>

DeleteRosterMember ==
    /\ http.requests < MaxRequests
    /\ \E member_id \in MemberIds(session), hard_delete \in BOOLEAN :
           LET response ==
                   delete_roster_member(session, member_id, "PCS",
                                        hard_delete)
           IN  /\ session' = response.session
               /\ http' = Request("delete", member_id, hard_delete,
                                  response.status)
    /\ UNCHANGED <<pc, args, ret, gateArgs, gateRet, roster, rp, parse>>

AddRosterMember ==
    /\ http.requests < MaxRequests
    /\ \E category \in {"eligible", "ineligible"} :
           LET response ==
                   add_roster_member(session, category, AddData,
                                     "late arrival")
           IN  /\ session' = response.session
               /\ http' = Request("add", <<>>, FALSE, response.status)
    /\ UNCHANGED <<pc, args, ret, gateArgs, gateRet, roster, rp, parse>>

NextEndpoints ==
    \/ GetRosterPreview
    \/ EditRosterMember
    \/ DeleteRosterMember
    \/ AddRosterMember

SpecEndpoints == InitEndpoints /\ [][NextEndpoints]_vars

(***************************************************************************)
(* Properties of board_filter.  The rules are restated one by one, each as *)
(* the verdict it gives when it stops the evaluation and Pass when it lets *)
(* the member through, independently of the chain above.                   *)
(***************************************************************************)

Done == pc = "done" /\ ret # Pending

Dor(a)  == parse_date(a.date_of_rank)
Taf(a)  == parse_date(a.tafmsd)
Disp(a) == parse_date(a.uif_disposition_date)

\* The member gets past the required-date gate and the table lookups.
Evaluated(a) == Dor(a) # None /\ Taf(a) # None /\ a.grade \in DOMAIN SCODS

Pass == [value |-> "pass", reason |-> ""]

BtzTaken(a) ==
    /\ a.grade = "A1C"
    /\ check_a1c_eligbility(Dor(a), a.year) = "None"
    /\ btz_elgibility_check(Dor(a), a.year)

A1CRule(a) ==
    IF a.grade # "A1C" THEN Pass
    ELSE CASE check_a1c_eligbility(Dor(a), a.year) = "False"
                  -> RetFalse("Failed A1C Check.")
           [] /\ check_a1c_eligbility(Dor(a), a.year) = "None"
              /\ ~ btz_elgibility_check(Dor(a), a.year)
                  -> RetNone
           [] OTHER -> Pass

CapRule(a) ==
    IF /\ a.grade \in {"A1C", "AMN", "AB"}
       /\ OnOrBefore(AddMonths(Taf(a), 36), Scod(a.grade, a.year))
    THEN RetFalse("SRA 2 Feb - 31 Mar or 3yr TIS") ELSE Pass

TigRule(a) ==
    IF After(Dor(a), TigEligibilityMonth(a.grade, a.year))
    THEN RetFalse("TIG: < " \o ToString(TIG_MONTHS_REQUIRED[a.grade]) \o " months")
    ELSE Pass

TisRule(a) ==
    IF After(Taf(a), TafmsdRequiredDate(a.grade, a.year))
    THEN RetFalse("TIS < " \o TAFMSD[a.grade].text \o " years") ELSE Pass

HytRule(a) ==
    IF Before(HytDate(a.grade, Taf(a)), Mdos(a.grade, a.year))
    THEN RetFalse("Higher tenure.") ELSE Pass

\* The UIF code as an integer: 0 when missing, empty or invalid.
UifAsInteger(u) ==
    CASE u.kind = "int" -> u.n
      [] u.kind = "float" /\ ~ u.inf -> u.n \div 10
      [] u.kind = "str" /\ IsDecimal(u.chars) -> DecimalValue(u.chars)
      [] OTHER -> 0

UifFlagged(a) ==
    /\ UifAsInteger(a.uif_code) > 1
    /\ Disp(a) # None
    /\ Before(Disp(a), Scod(a.grade, a.year))

UifRule(a) ==
    IF UifFlagged(a)
    THEN RetDiscrepancy("UIF code: " \o ToString(UifAsInteger(a.uif_code)))
    ELSE Pass

ReFlagged(a) == a.re_status.kind = "str" /\ a.re_status.s \in DOMAIN RE_CODES

ReRule(a) ==
    IF ReFlagged(a)
    THEN RetDiscrepancy(a.re_status.s \o ": " \o RE_CODES[a.re_status.s])
    ELSE Pass

\* The character of a specialty code at its skill-level position meets the
\* level: 5th character after a letter or '-', otherwise the 4th.
MeetsLevel(code, level) ==
    /\ code.kind = "str"
    /\ Len(code.chars) >= 5
    /\ LET c == IF isalpha(code.chars[1]) \/ code.chars[1] = "-"
                THEN code.chars[5] ELSE code.chars[4]
       IN  ord(c) >= ord(level)

SpecialDuty(code) ==
    code.kind = "str" /\ Len(code.chars) > 0 /\ code.chars[1] \in {"8", "9"}

NoCodeMeets(a) ==
    \A code \in {a.pafsc, a.two_afsc, a.three_afsc, a.four_afsc} :
        ~ MeetsLevel(code, PAFSC_MAP[a.grade])

SkillRule(a) ==
    IF a.grade \notin {"MSG", "SMS"} /\ ~ SpecialDuty(a.pafsc) /\ NoCodeMeets(a)
    THEN RetDiscrepancy("Insufficient PAFSC skill level.") ELSE Pass

FinalRule(a) == IF BtzTaken(a) THEN RetBtz ELSE RetTrue

DateRuleChain(a) == <<A1CRule(a), CapRule(a), TigRule(a), TisRule(a), HytRule(a)>>

RuleChain(a) ==
    DateRuleChain(a) \o <<UifRule(a), ReRule(a), SkillRule(a), FinalRule(a)>>

\* The verdict of the first rule of a chain that does not pass.
FirstVerdict(chain) ==
    chain[CHOOSE i \in DOMAIN chain :
              chain[i] # Pass /\ \A j \in 1 .. (i - 1) : chain[j] = Pass]

PassesDateRules(a) ==
    Evaluated(a) /\ \A i \in DOMAIN DateRuleChain(a) : DateRuleChain(a)[i] = Pass

\* int() of the UIF code raises out of step 8.
UifRaises(a) == a.uif_code.kind = "float" /\ a.uif_code.inf

\* C1: board_filter evaluates A1C sub-check, 36-month cap, TIG, TIS, higher
\* tenure, UIF, RE code, skill level in this order and returns the verdict
\* and reason of the first rule that fails or flags; a failed date rule
\* gives ineligible whatever UIF, RE code and skill level are, and a member
\* who triggers both the UIF and the RE discrepancy gets the UIF reason.
C1_FirstRuleDecides ==
    Done /\ Evaluated(args) /\ ~ (PassesDateRules(args) /\ UifRaises(args)) =>
        /\ ret = FirstVerdict(RuleChain(args))
        /\ ~ PassesDateRules(args) => ret.value \in {"False", "None"}
        /\ PassesDateRules(args) /\ UifFlagged(args) /\ ReFlagged(args) =>
               ret = UifRule(args)

\* C1: a member who triggers the UIF, the RE and the skill-level discrepancy
\* at once has been evaluated and carries the UIF reason.
C1_Witness ==
    /\ Done /\ PassesDateRules(args)
    /\ UifFlagged(args) /\ ReFlagged(args) /\ SkillRule(args) # Pass
    /\ ret = RetDiscrepancy("UIF code: 2")

\* C2: board_filter returns a verdict for every input and never raises; an
\* internal fault (a grade the tables lack, an int() that overflows) gives
\* ineligible with a reason that starts with 'Processing error'.
C2_NeverRaises ==
    Done =>
        /\ ret.value \in {"True", "False", "discrepancy", "None"}
        /\ (ret.value = "True") => ret.reason \in {"", "btz"}
        /\ (ret.value = "None") => ret.reason = ""
        /\ (/\ Dor(args) # None /\ Taf(args) # None
            /\ \/ args.grade \notin DOMAIN SCODS
               \/ PassesDateRules(args) /\ UifRaises(args)) =>
               /\ ret.value = "False"
               /\ ret.reason \in {"Processing error: " \o m : m \in {NoSplit, IntOfInf}}

\* C2: a member of a grade the tables lack, with readable dates, was
\* returned ineligible with a processing-error reason.
C2_Witness ==
    /\ Done /\ args.grade = "CMS" /\ Dor(args) # None /\ Taf(args) # None
    /\ ret = RetFalse("Processing error: " \o NoSplit)

CleanMember ==
    [grade |-> "SSG", year |-> 2025, date_of_rank |-> Text(1, "Jan", 2022),
     uif_code |-> UifInt(0), uif_disposition_date |-> Missing,
     tafmsd |-> Text(1, "Jan", 2018), re_status |-> Str(<<"1", "A">>, "1A"),
     pafsc |-> AFSC_3D137, two_afsc |-> NoneCell, three_afsc |-> NoneCell,
     four_afsc |-> NoneCell]

\* C4: the clean member of the scenario (SSG, 2025, date-of-rank
\* 01-Jan-2022, TAFMSD 01-Jan-2018, UIF 0, RE code 1A, specialty 3D137) is
\* returned plain eligible with no discrepancy.
C4_CleanMemberEligible ==
    Done /\ args = CleanMember => ret = RetTrue

\* The RE check is reached: the date rules passed and the UIF check did
\* not stop the evaluation.
ReachesRe(a) == PassesDateRules(a) /\ ~ UifRaises(a) /\ ~ UifFlagged(a)

ReReasons == {c \o ": " \o RE_CODES[c] : c \in DOMAIN RE_CODES}

\* C5: a member who passes every date rule and is not flagged by the UIF
\* check gets eligible_discrepancy with the RE code and its description as
\* reason exactly when the RE code is present and is a key of the table;
\* an absent code or one outside the table is never flagged by this check.
C5_ReCheck ==
    Done /\ ReachesRe(args) =>
        IF args.re_status.kind = "str" /\ args.re_status.s \in DOMAIN RE_CODES
        THEN ret = RetDiscrepancy(args.re_status.s \o ": "
                                  \o RE_CODES[args.re_status.s])
        ELSE ret.reason \notin ReReasons

\* C5: a member with RE code 4H who reached the RE check was flagged with
\* the code and its description.
C5_Witness ==
    /\ Done /\ ReachesRe(args) /\ args.re_status.s = "4H"
    /\ ret = RetDiscrepancy("4H: Article 15.")

\* The skill-level check is reached.
ReachesSkill(a) == ReachesRe(a) /\ ~ ReFlagged(a)

UifReasons == {"UIF code: " \o ToString(n) : n \in 0 .. (MaxUifCode + 3)}

\* C7: the UIF check flags a member (eligible_discrepancy, reason
\* 'UIF code: <n>') exactly when the code as an integer (0 when missing,
\* empty or invalid) is greater than 1 and a disposition date is present
\* and strictly earlier than the closeout date; code 0 or 1 is never
\* flagged, whatever the disposition date.
C7_UifCheck ==
    Done /\ PassesDateRules(args) =>
        /\ IF UifFlagged(args)
           THEN ret = RetDiscrepancy("UIF code: "
                                     \o ToString(UifAsInteger(args.uif_code)))
           ELSE ret.reason \notin UifReasons
        /\ UifAsInteger(args.uif_code) \in {0, 1} => ret.reason \notin UifReasons

\* C7: a member whose UIF code is the text '3', with a disposition date
\* before the closeout date, was flagged with code 3.
C7_Witness ==
    /\ Done /\ PassesDateRules(args)
    /\ args.uif_code = UifStr(<<"3">>)
    /\ Before(Disp(args), Scod(args.grade, args.year))
    /\ ret = RetDiscrepancy("UIF code: 3")

\* C8: a primary code with the special-duty prefix 8 or 9 never receives
\* the skill-level discrepancy, for any grade and any secondary codes; the
\* prefix on a secondary code alone does not bypass the check.
C8_SpecialDutyBypass ==
    Done =>
        /\ SpecialDuty(args.pafsc) =>
               ret.reason # "Insufficient PAFSC skill level."
        /\ (/\ ReachesSkill(args) /\ args.grade \notin {"MSG", "SMS"}
            /\ ~ SpecialDuty(args.pafsc)
            /\ \E code \in {args.two_afsc, args.three_afsc, args.four_afsc} :
                   SpecialDuty(code)
            /\ NoCodeMeets(args)) =>
               ret = RetDiscrepancy("Insufficient PAFSC skill level.")

\* C8: an SSG whose primary code 8F000 and secondary code 3D135 both miss
\* the required level reached the skill-level check and was returned
\* eligible.
C8_Witness ==
    /\ Done /\ ReachesSkill(args) /\ args.grade = "SSG"
    /\ SpecialDuty(args.pafsc) /\ NoCodeMeets(args)
    /\ ret = RetTrue

\* The end of the window of both A1C sub-checks: 31 March of the cycle year.
A1CWindowEnd(year) == strptime(DayMon(31, "MAR"), year)

\* C9: for grade A1C with readable dates, when date-of-rank + 28 months
\* lies after the window (the standard sub-check is ambiguous) and
\* date-of-rank + 22 months does too (the below-the-zone sub-check fails),
\* board_filter returns not_applicable; for every other grade it never
\* returns not_applicable or eligible_btz.
C9_NotApplicable ==
    Done =>
        /\ (/\ args.grade = "A1C" /\ Dor(args) # None /\ Taf(args) # None
            /\ After(AddMonths(Dor(args), 28), A1CWindowEnd(args.year))
            /\ After(AddMonths(Dor(args), 22), A1CWindowEnd(args.year))) =>
               ret = RetNone
        /\ args.grade # "A1C" => ret \notin {RetNone, RetBtz}

\* C9: an A1C with readable dates whose date-of-rank + 22 months lies after
\* the window was returned not_applicable.
C9_Witness ==
    /\ Done /\ args.grade = "A1C" /\ Dor(args) # None /\ Taf(args) # None
    /\ After(AddMonths(Dor(args), 22), A1CWindowEnd(args.year))
    /\ ret = RetNone

(***************************************************************************)
(* Properties of accounting_date_check.                                    *)
(***************************************************************************)

GateDone == pc = "done" /\ gateRet # "pending"

\* C10: accounting_date_check returns false exactly when the arrival date is
\* absent or later than the accounting date (closeout date minus 119 days,
\* moved to day 3 of that month at 23:59:59); an arrival at any time of day
\* on that 3rd is admitted and an arrival at 00:00:00 on the 4th is
\* rejected.
C10_AccountingDate ==
    GateDone /\ gateArgs.grade \in DOMAIN SCODS =>
        LET das  == gateArgs.date_arrived_station
            acct == AdjustedAccountingDate(gateArgs.grade, gateArgs.year)
        IN  /\ gateRet \in {"True", "False"}
            /\ gateRet = "False" <=> (das = None \/ After(das, acct))
            /\ das # None /\ DayKey(das) = DayKey(acct) => gateRet = "True"
            /\ das # None /\ DayKey(das) = DayKey(acct) + 1 => gateRet = "False"

\* C11: accounting_date_check is monotonic in the arrival date: for every
\* grade and cycle year, when the gate admits arrival date b it admits
\* every earlier arrival date a.
C11_GateMonotonic ==
    GateDone /\ gateRet = "True" =>
        \A a \in ArrivalValues \ {None} :
            Before(a, gateArgs.date_arrived_station) =>
                accounting_date_check(a, gateArgs.grade, gateArgs.year) = "True"

\* C11: an arrival in the last second of the accounting date was admitted,
\* and earlier arrivals of the same day exist.
C11_Witness ==
    /\ GateDone /\ gateRet = "True"
    /\ gateArgs.date_arrived_station =
           AdjustedAccountingDate(gateArgs.grade, gateArgs.year)
    /\ \E a \in ArrivalValues \ {None} :
           /\ DayKey(a) = DayKey(gateArgs.date_arrived_station)
           /\ Before(a, gateArgs.date_arrived_station)

(***************************************************************************)
(* Properties of roster_processor.  Records are named by their index       *)
(* label, the position in the roster counted from 0.                       *)
(***************************************************************************)

InPass  == rp.pc \in {"loop", "done"}
RosterDone == rp.pc = "done"

\* The index labels the loop has taken so far.
Taken == 0 .. (rp.index - 1)

\* The row with an index label, after the date columns have been parsed.
RowOf(index) == rp.filtered_roster_df[index + 1]

Eligible    == Range(rp.eligible_service_members)
Btz         == Range(rp.eligible_btz_service_members)
Ineligible  == Range(rp.ineligible_service_members)
Discrepancy == Range(rp.discrepancy_service_members)

\* The row gets as far as the call of board_filter.
ReachesEngine(row) ==
    /\ Screen(row, roster.cycle, roster.year) = "admitted"
    /\ \A i \in DOMAIN REQUIRED_COLUMNS : ~ isna(row[REQUIRED_COLUMNS[i]])
    /\ ~ CellIs(row.GRADE_PERM_PROJ, roster.cycle)

EngineVerdict(row) == board_filter(BoardArgs(row, roster.year))

NoDuplicates(list) == Cardinality(Range(list)) = Len(list)

\* C12: a record that reaches the rules engine is placed by its verdict:
\* eligible in the eligible set only, eligible_discrepancy in the eligible
\* and the discrepancy set, eligible_btz in the below-the-zone set only,
\* ineligible in the ineligible set only, not_applicable in no set.  After
\* every step of the pass the eligible, below-the-zone and ineligible sets
\* are pairwise disjoint, the discrepancy set is a subset of the eligible
\* set, and no index occurs twice in a set.
C12_PlacedByVerdict ==
    InPass =>
        /\ \A index \in Taken :
               ReachesEngine(RowOf(index)) =>
                   LET verdict == EngineVerdict(RowOf(index))
                   IN  /\ index \in Eligible <=>
                              verdict = RetTrue \/ verdict.value = "discrepancy"
                       /\ index \in Discrepancy <=> verdict.value = "discrepancy"
                       /\ index \in Btz <=> verdict = RetBtz
                       /\ index \in Ineligible <=> verdict.value = "False"
        /\ Eligible \cap Btz = {}
        /\ Eligible \cap Ineligible = {}
        /\ Btz \cap Ineligible = {}
        /\ Discrepancy \subseteq Eligible
        /\ NoDuplicates(rp.eligible_service_members)
        /\ NoDuplicates(rp.eligible_btz_service_members)
        /\ NoDuplicates(rp.ineligible_service_members)
        /\ NoDuplicates(rp.discrepancy_service_members)

\* C12: a pass has filed a below-the-zone member and, in another step, a
\* member with a discrepancy.
C12_Witness ==
    /\ RosterDone
    /\ Btz # {} /\ Discrepancy # {}
    /\ \E index \in Btz : ReachesEngine(RowOf(index))

\* C13: after roster_processor has finished, every member of the
\* ineligible set and of the discrepancy set has exactly one reason string
\* in the reason map, which is the REASON of its row in the stored data
\* frame, and no record outside those two sets has a reason.
C13_ReasonPerMember ==
    RosterDone =>
        /\ DOMAIN rp.reason_for_ineligible_map = Ineligible \cup Discrepancy
        /\ \A key \in {"ineligible_df", "discrepancy_df"} :
               \A i \in DOMAIN session[key] :
                   /\ session[key][i].REASON # "nan"
                   /\ session[key][i].REASON =
                          rp.reason_for_ineligible_map[session[key][i].index]

\* C13: a finished pass with a member projected for the cycle grade, who
\* carries that reason, and a second record without any reason.
C13_Witness ==
    /\ RosterDone
    /\ \E index \in Ineligible :
           rp.reason_for_ineligible_map[index] = "Projected for SSG."
    /\ \E index \in Taken : index \notin DOMAIN rp.reason_for_ineligible_map

Bucketed == Eligible \cup Btz \cup Ineligible \cup Discrepancy

RecognisedEnlisted(row) ==
    \E g \in ENLISTED_RANKS : CellIs(row.GRADE, g)

ProjectedAboveCycle(row) ==
    CellIs(row.GRADE_PERM_PROJ, PROMOTIONAL_MAP[roster.cycle])

AdmittedToCycle(row) ==
    \/ CellIs(row.GRADE, roster.cycle)
    \/ CellIs(row.GRADE_PERM_PROJ, roster.cycle)
    \/ CellIs(row.GRADE, "A1C") /\ roster.cycle = "SRA"

PassesGate(row) ==
    accounting_date_check(CellDatetime(row.DATE_ARRIVED_STATION),
                          roster.cycle, roster.year) = "True"

\* The diagnostics of the rows taken so far that the required-data check
\* stopped.
MissingDataDiagnostics ==
    Cardinality({index \in Ineligible :
                    rp.reason_for_ineligible_map[index] = "Missing required data"})

RECURSIVE Loop(_, _, _)
Loop(l, rows, index) ==
    IF index >= Len(rows) THEN l
    ELSE Loop(ProcessRow(l, index, rows[index + 1], roster.cycle, roster.year),
              rows, index + 1)

\* The lists a record is in and its reason, given the local variables.
OutcomeOf(l, index) ==
    [eligible    |-> index \in Range(l.eligible_service_members),
     btz         |-> index \in Range(l.eligible_btz_service_members),
     ineligible  |-> index \in Range(l.ineligible_service_members),
     discrepancy |-> index \in Range(l.discrepancy_service_members),
     reason      |-> Get(l.reason_for_ineligible_map, index, "")]

\* The outcome of the record with an index label in a roster of its own.
OutcomeIn(rows, index) ==
    OutcomeOf(Loop(Locals, ParseDateColumns(rows), 0), index)

\* A roster without the row at position p.
Without(rows, p) == SubSeq(rows, 1, p - 1) \o SubSeq(rows, p + 1, Len(rows))

\* The record is admitted to the cycle, is past the gate and has no TAFMSD.
MissingTafmsd(index) ==
    /\ Screen(RowOf(index), roster.cycle, roster.year) = "admitted"
    /\ isna(roster.rows[index + 1].TAFMSD)

\* The other records keep their outcome when the record is taken out of
\* the roster.
OthersUnchanged(index, others) ==
    \A other \in others :
        OutcomeOf(rp, other) =
            OutcomeIn(Without(roster.rows, index + 1),
                      IF other > index THEN other - 1 ELSE other)

ArrivalReadable ==
    {index \in Taken :
        parse_date(roster.rows[index + 1].DATE_ARRIVED_STATION) # None}

UnitOf(index) == RowOf(index).ASSIGNED_PAS.s

\* The number of members of the eligible set in a unit.
EligibleCount(unit) == Cardinality({index \in Eligible : UnitOf(index) = unit})

UnitsWithEligible == {UnitOf(index) : index \in Eligible}

\* C16: after the full pass, for cycle grades other than MSG and SMS a
\* unit is small exactly when the number of its members in the eligible
\* set is at most small_unit_threshold; for MSG and SMS every unit with an
\* eligible member is small; and the small-unit subset is exactly the
\* members of the eligible set whose unit is small.
C16_SmallUnits ==
    RosterDone =>
        /\ \A unit \in UnitsWithEligible :
               unit \in rp.small_unit_pascodes <=>
                   \/ roster.cycle \in {"MSG", "SMS"}
                   \/ EligibleCount(unit) <= small_unit_threshold
        /\ Range(rp.small_unit_eligible_service_members) =
               {index \in Eligible : UnitOf(index) \in rp.small_unit_pascodes}

OutputKeys ==
    {"eligible_df", "ineligible_df", "discrepancy_df", "btz_df", "small_unit_df"}

\* The roster was found faulty: one diagnostic, no record taken, no output
\* set stored.
StructurallyFaulty ==
    /\ rp.pc = "failed"
    /\ Len(rp.error_log) = 1 /\ session.error_log = rp.error_log
    /\ rp.index = 0
    /\ DOMAIN session \cap OutputKeys = {}

\* C17: roster_processor treats a roster as structurally faulty exactly
\* when a required column is missing, and decides so before any record is
\* taken; a roster with every required column that lacks optional columns
\* is processed record by record.
C17_RequiredColumnsOnly ==
    rp.pc \notin {"idle", "start"} =>
        /\ rp.pc = "failed" <=> ~ (Range(REQUIRED_COLUMNS) \subseteq roster.columns)
        /\ rp.pc = "failed" => StructurallyFaulty

\* The cell holds something, and it cannot be read as a date.
Unreadable(value) ==
    /\ value.kind \notin {"None", "NaN"}
    /\ ~ (value.kind = "str" /\ value.text = NoText)
    /\ parse_date(value) = None

UnreadableCells ==
    {<<i, col>> \in (DOMAIN roster.rows) \X date_columns :
        Unreadable(roster.rows[i][col])}

\* C18: when a date field of a record cannot be normalised,
\* roster_processor records a diagnostic for it in the warning list,
\* treats the field as absent for the rest of the pass, and raises nothing.
C18_DateDiagnostic ==
    InPass =>
        /\ Len(rp.error_log) >= Cardinality(UnreadableCells)
        /\ \A cell \in UnreadableCells :
               isna(rp.filtered_roster_df[cell[1]][cell[2]])

\* C19: the bucket and the reason roster_processor assigns to a record
\* depend only on that record, the cycle grade and the cycle year: they
\* are the ones the record gets in a roster of its own, whatever other
\* records are added, removed or reordered.
C19_RecordAlone ==
    RosterDone =>
        \A index \in Taken :
            OutcomeOf(rp, index) = OutcomeIn(<<roster.rows[index + 1]>>, 0)

(***************************************************************************)
(* C20: parse_date is total and idempotent.  Every call returns a date or  *)
(* None without raising, and parse_date of the value it returned is that   *)
(* value again.                                                            *)
(***************************************************************************)

\* parse_date(parse_date(x)) = parse_date(x), for the values that are parsed.
Idempotent ==
    parse.pc = "twice" => parse.twice = parse.once

\* C20: no call of parse_date raises, the value returned is a date within
\* the calendar or None, and a second call returns what the first returned.
C20_IdempotentTotal ==
    /\ parse.pc # "raised"
    /\ parse.pc \in {"once", "twice"} =>
           \/ parse.once = None
           \/ /\ parse.once.month \in 1 .. 12
              /\ parse.once.day \in 1 .. DaysInMonth(parse.once.year,
                                                     parse.once.month)
    /\ Idempotent

(***************************************************************************)
(* C21: the A1C sub-check.  The date of rank plus 28 months is compared    *)
(* with 1 February of the cycle year and with the closeout date of the     *)
(* grade, 31 March of the year after the cycle year.                       *)
(***************************************************************************)

FebruaryCutoff(year) == DateTime(year, 2, 1)

\* The three outcomes of the sub-check for a given closeout date.
SubCheckOutcome(a, closeout) ==
    LET d28 == AddMonths(Dor(a), 28)
    IN  IF OnOrBefore(d28, FebruaryCutoff(a.year)) THEN "standard"
        ELSE IF OnOrBefore(d28, closeout) THEN "not yet"
        ELSE "ambiguous"

\* What board_filter returns for each outcome: a standard-eligible member
\* goes on to the later rules, a not-yet-eligible member is ineligible, an
\* ambiguous member is excluded unless the date of rank plus 22 months is
\* on or before the closeout date.
SubCheckFollowed(a, closeout) ==
    LET outcome == SubCheckOutcome(a, closeout)
        failed  == RetFalse("Failed A1C Check.")
    IN  /\ outcome = "standard" => ret \notin {failed, RetNone, RetBtz}
        /\ outcome = "not yet" => ret = failed
        /\ outcome = "ambiguous" =>
               /\ ret # failed
               /\ ret = RetNone <=>
                      After(AddMonths(Dor(a), 22), closeout)

\* C21: for an A1C the sub-check is standard-eligible when date of rank plus
\* 28 months is on or before 1 February of the cycle year, ineligible with
\* 'Failed A1C Check.' when it is after that and on or before the closeout
\* date, ambiguous when later; the closeout date is the year-adjusted one of
\* the key dates, 31 March of the cycle year plus one.
C21_A1CSubCheck ==
    Done /\ args.grade = "A1C" /\ Evaluated(args) =>
        SubCheckFollowed(args, Scod("A1C", args.year))

(***************************************************************************)
(* C22: the 36-month cap of the three junior grades.                       *)
(***************************************************************************)

CapReason == "SRA 2 Feb - 31 Mar or 3yr TIS"

\* The closeout date of AB, AMN and A1C: 31 March of the year after the
\* cycle year.
JuniorCloseout(year) == DateTime(year + 1, 3, 31)

TigCutoff(grade, year) ==
    AddMonths(DateTime(year + 1, MonthNames[TIG[grade].mon], TIG[grade].day),
              - TIG_MONTHS_REQUIRED[grade])

TigReason(grade) ==
    "TIG: < " \o ToString(TIG_MONTHS_REQUIRED[grade]) \o " months"

\* The member gets to the time-in-grade rule.
ReachesTig(a) == Evaluated(a) /\ A1CRule(a) = Pass /\ CapRule(a) = Pass

\* C23: a member who gets to the time-in-grade rule is returned ineligible
\* with 'TIG: < N months', N the required months of the grade, exactly when
\* the date of rank is strictly later than the TIG cutoff; a date of rank
\* equal to the cutoff passes.
C23_TimeInGrade ==
    Done /\ ReachesTig(args) =>
        (ret = RetFalse(TigReason(args.grade)) <=>
             After(Dor(args), TigCutoff(args.grade, args.year)))

\* C23: a member whose date of rank is the cutoff itself got past the rule,
\* and was not returned with the TIG reason.
C23_Witness ==
    /\ Done /\ ReachesTig(args)
    /\ Dor(args) = TigCutoff(args.grade, args.year)
    /\ ret # RetFalse(TigReason(args.grade))

(***************************************************************************)
(* C24: the higher-tenure rule and its exception window.                   *)
(***************************************************************************)

\* The member gets to the higher-tenure rule.
ReachesHyt(a) == ReachesTig(a) /\ TigRule(a) = Pass /\ TisRule(a) = Pass

StandardHyt(a)  == AddMonths(Taf(a), 12 * MAIN_HIGHER_TENURE[a.grade])
ExceptionHyt(a) == AddMonths(Taf(a), 12 * EXCEPTION_HIGHER_TENURE[a.grade])

\* Strictly between 8 December 2023 and 30 September 2026.
InExceptionWindow(dt) ==
    After(dt, DateTime(2023, 12, 8)) /\ Before(dt, DateTime(2026, 9, 30))

ResultingHyt(a) ==
    IF InExceptionWindow(StandardHyt(a)) THEN ExceptionHyt(a) ELSE StandardHyt(a)

MandatorySeparation(a) ==
    DateTime(a.year + 1, MonthNames[MDOS[a.grade].mon], MDOS[a.grade].day)

\* C24: the higher-tenure date is TAFMSD plus the exception years exactly
\* when TAFMSD plus the standard years lies strictly between 8 December 2023
\* and 30 September 2026, and a member who gets to the rule is returned
\* ineligible with 'Higher tenure.' exactly when the resulting date is
\* strictly earlier than the mandatory-separation date.
C24_HigherTenure ==
    Done /\ ReachesHyt(args) =>
        (ret = RetFalse("Higher tenure.") <=>
             Before(ResultingHyt(args), MandatorySeparation(args)))

\* C24: a member whose standard date is 8 December 2023 itself was failed
\* although the exception years would have carried the member past the
\* mandatory-separation date.
C24_Witness ==
    /\ Done /\ ReachesHyt(args)
    /\ StandardHyt(args) = DateTime(2023, 12, 8)
    /\ ~ Before(ExceptionHyt(args), MandatorySeparation(args))
    /\ ret = RetFalse("Higher tenure.")

(***************************************************************************)
(* C27: an A1C whose TAFMSD is not later than the date of rank.            *)
(***************************************************************************)

\* Date of rank plus 28 months is on or before 1 February of the cycle year.
MeetsStandardRule(a) ==
    ~ After(AddMonths(Dor(a), 28), FebruaryCutoff(a.year))

\* C27: an A1C whose TAFMSD is on or before the date of rank is never
\* returned plain eligible: if the standard rule is met, TAFMSD plus 36
\* months is on or before the closeout date and the 36-month cap returns the
\* member ineligible, and an eligible or discrepancy verdict is reached
\* through the below-the-zone path only.
C27_NoPlainEligibleA1C ==
    Done /\ args.grade = "A1C" /\ Evaluated(args)
         /\ ~ After(Taf(args), Dor(args)) =>
        /\ ret # RetTrue
        /\ MeetsStandardRule(args) =>
               /\ ~ After(AddMonths(Taf(args), 36), JuniorCloseout(args.year))
               /\ ret = RetFalse(CapReason)
        /\ ret.value \in {"True", "discrepancy"} => BtzTaken(args)

\* C27: an A1C met the standard rule with a TAFMSD that is the date of rank
\* and was returned ineligible by the cap.
C27_Witness ==
    /\ Done /\ args.grade = "A1C" /\ Taf(args) = Dor(args)
    /\ MeetsStandardRule(args)
    /\ ret = RetFalse(CapReason)

(***************************************************************************)
(* C25: a member already projected for the cycle grade.                    *)
(***************************************************************************)

HasRequiredFields(row) ==
    \A i \in DOMAIN REQUIRED_COLUMNS : ~ isna(row[REQUIRED_COLUMNS[i]])

ProjectedForCycle(row) == CellIs(row.GRADE_PERM_PROJ, roster.cycle)

\* C25: a record of a recognised enlisted grade that is projected for the
\* cycle grade, passes the accounting-date gate and has every required
\* field is in the ineligible set only, with the reason 'Projected for
\* <cycle>.', whatever its grade and its dates are.
C25_AlreadyProjected ==
    InPass =>
        \A index \in Taken :
            /\ RecognisedEnlisted(RowOf(index))
            /\ ProjectedForCycle(RowOf(index))
            /\ PassesGate(RowOf(index))
            /\ HasRequiredFields(RowOf(index))
            => OutcomeOf(rp, index) =
                   [eligible |-> FALSE, btz |-> FALSE, ineligible |-> TRUE,
                    discrepancy |-> FALSE,
                    reason |-> "Projected for " \o roster.cycle \o "."]

\* C25: the pass has taken an SRA projected for SSG in an SSG cycle, whom
\* board_filter would return eligible, and the record is ineligible.
C25_Witness ==
    /\ InPass /\ roster.cycle = "SSG"
    /\ \E index \in Taken :
           /\ CellIs(RowOf(index).GRADE, "SRA")
           /\ ProjectedForCycle(RowOf(index))
           /\ HasRequiredFields(RowOf(index))
           /\ EngineVerdict(RowOf(index)) = RetTrue
           /\ index \in Ineligible

(***************************************************************************)
(* C26: the unit codes roster_processor tracks.                            *)
(***************************************************************************)

TrackedUnits == Range(rp.pascodes)

\* C26: after a pass the tracked unit codes are the unit codes of the
\* records that reached the rules engine, whatever the engine returned for
\* them; the unit of a record that was dropped earlier, or bucketed
\* ineligible for missing required data or for being projected, is tracked
\* only if another record brings it; every unit with a member in the
\* eligible or the below-the-zone set is tracked; and the session holds the
\* tracked units.
C26_TrackedUnits ==
    RosterDone =>
        /\ TrackedUnits =
               {UnitOf(index) : index \in
                   {i \in Taken : ReachesEngine(RowOf(i))}}
        /\ \A index \in Eligible \cup Btz : UnitOf(index) \in TrackedUnits
        /\ NoDuplicates(rp.pascodes)
        /\ session.pascodes = rp.pascodes

\* C26: a finished pass in which the engine excluded a record as not
\* applicable, whose unit is tracked, and in which the unit of a record
\* that is ineligible without having reached the engine is not tracked.
C26_Witness ==
    /\ RosterDone
    /\ \E index \in Taken :
           /\ ReachesEngine(RowOf(index))
           /\ EngineVerdict(RowOf(index)) = RetNone
           /\ UnitOf(index) \in TrackedUnits
    /\ \E index \in Ineligible :
           /\ ~ ReachesEngine(RowOf(index))
           /\ UnitOf(index) \notin TrackedUnits

(***************************************************************************)
(* C28: recalculate_small_units right after roster_processor.              *)
(***************************************************************************)

Recalculated == pc = "recalculated"

\* C28: recalculate_small_units run right after roster_processor counts
\* the same eligible members per unit, finds the same small units and
\* stores the same small-unit members as roster_processor did.
C28_RecalculationKeepsSmallUnits ==
    Recalculated =>
        LET unit_total_map ==
                RecalculatedUnitTotalMap(session.eligible_df,
                                         rp.filtered_roster_df)
        IN  /\ unit_total_map = rp.unit_total_map
            /\ SmallUnitPascodes(unit_total_map, session.cycle)
                   = rp.small_unit_pascodes
            /\ session.small_unit_df = rp.small_unit_eligible_service_members

(***************************************************************************)
(* Properties of the roster endpoints.                                     *)
(***************************************************************************)

\* The last request was a deletion that the endpoint carried out.
Deleting == http.op = "delete" /\ http.status = 200

\* The member m the deletion was asked for: the record at the position
\* the member_id names in the list of its category before the request.
DeletedMember ==
    http.before[http.member_id[2] \o "_df"][IntOf(http.member_id[3]) + 1]

\* after is list without its entry at position j.
IsWithout(list, j, after) ==
    /\ Len(after) = Len(list) - 1
    /\ \A k \in DOMAIN after :
           after[k] = IF k < j THEN list[k] ELSE list[k + 1]

\* after is list with no entry but the one at position j changed.
OnlyAt(list, j, after) ==
    /\ Len(after) = Len(list)
    /\ \A k \in DOMAIN after : k # j => after[k] = list[k]

\* C29: when delete_roster_member deletes member m from a category list,
\* soft or hard, the entry of pdf_dataframe it marks as deleted or removes,
\* if any, is an entry of m (same FULL_NAME), and the entry of every other
\* member is left unchanged.
C29_DeleteKeepsOtherEntries ==
    Deleting =>
        \/ session.pdf_dataframe = http.before.pdf_dataframe
        \/ \E j \in DOMAIN http.before.pdf_dataframe :
              /\ http.before.pdf_dataframe[j].FULL_NAME
                     = DeletedMember.FULL_NAME
              /\ IF http.hard_delete
                 THEN IsWithout(http.before.pdf_dataframe, j,
                              session.pdf_dataframe)
                 ELSE /\ OnlyAt(http.before.pdf_dataframe, j,
                                session.pdf_dataframe)
                      /\ session.pdf_dataframe[j].deleted

\* The category and the position in its stored list of every record that
\* the preview of the session before the last request showed under the
\* member_id of the request.
Shown ==
    LET preview == get_roster_preview(http.before)
    IN  UNION { { <<category, record.at>> :
                    record \in { r \in Range(preview[category]) :
                                    r.member_id = http.member_id } } :
                category \in DOMAIN preview }

\* C30: after any sequence of add, edit, soft-delete and hard-delete
\* requests, a member_id that the preview reports for a member designates
\* that member for the edit and the delete endpoint: the request changes
\* the record of the member shown under the id and of no other member.
C30_PreviewIdDesignatesMember ==
    (http.op \in {"edit", "delete"} /\ Shown # {}) =>
        \A shown \in Shown :
            LET before == http.before[shown[1] \o "_df"]
                after  == session[shown[1] \o "_df"]
                at     == shown[2]
            IN  /\ http.status = 200
                /\ IF http.op = "delete" /\ http.hard_delete
                   THEN IsWithout(before, at, after)
                   ELSE /\ OnlyAt(before, at, after)
                        /\ IF http.op = "delete"
                           THEN after[at].deleted
                           ELSE after[at].GRADE = "SRA"
                /\ \A other \in {"eligible", "ineligible", "discrepancy",
                                 "btz"} \ {shown[1]} :
                       session[other \o "_df"] = http.before[other \o "_df"]

====
